---- MODULE Spec2Model ----
(***************************************************************************)
(* Model of the RAG chat backend: the Conversation Store                   *)
(* (conversationManager.js), the LLM Gateway (llmService.js) and the       *)
(* request-level orchestration (routes/chat.js).                           *)
(*                                                                         *)
(* Time is a discrete clock `now` (one unit stands for a span of           *)
(* milliseconds); every synchronous JavaScript function runs at a single   *)
(* clock value.  The values of crypto.randomBytes are supplied by the      *)
(* caller of an operator as a fresh identifier (collisions of 128-bit and  *)
(* 64-bit random values are not modelled).                                 *)
(***************************************************************************)
EXTENDS Integers, Sequences, FiniteSets, TLC

----------------------------------------------------------------------------
(* Bounds of the model *)

MaxTime == 2
MaxMsgs == 7
SessionIds == {"s1", "s2"}
\* the metadata a caller passes: the User-Agent header and the address of a request
Metadata == {[ip |-> "ip1", userAgent |-> "ua1"]}
Callers == {"r1", "r2"}

(* Program constants *)

SessionTimeout == 1
MaxHistoryLength == 6

\* llmService config (timeout values are recorded, never waited for)
MaxRetries == 3
RetryDelay == 1000
MaxCalls == 2

NoId == "none"
Roles == {"user", "assistant"}
\* ids a client may send: the generated ones, one that is never generated, or none
ClientIds == SessionIds \cup {"zz", NoId}

VARIABLES
  now,          \* the wall clock read by new Date()
  sessions,     \* conversationManager: the sessions Map, in insertion order
  persisted,    \* the sessions object last written to conversations.json
  usedIds,      \* session ids generateSessionId has produced so far
  msgSeq,       \* number of addMessage calls made so far
  added,        \* history: per session id, the messages added since it was created or cleared
  ret,          \* the last Conversation Store call and what it returned
  provider,     \* llmService: config.provider
  credential,   \* llmService: whether the active provider's API key is a non-empty string
  totalTokensUsed, \* llmService usage counter
  requestCount, \* llmService usage counter
  calls,        \* per caller, the state of its callLLM / callLLMWithFallback invocation
  callsMade,    \* number of invocations started so far
  initialized,  \* routes/chat.js: the module's initialization flag
  reqs,         \* per caller, the state of its POST /api/chat request
  similarityThreshold, \* ragPipeline: the threshold, in tenths
  maxRetrievedChunks,  \* ragPipeline: the cap on the chunks retrieved
  vectorStore,  \* ragPipeline: the chunks loaded by initialize, in insertion order
  rag,          \* the last ragPipeline call and what it returned
  fn            \* the last call of a function that keeps no state, and what it returned

storeVars == <<now, sessions, persisted, usedIds, msgSeq, added, ret>>
llmVars == <<provider, credential, totalTokensUsed, requestCount, calls, callsMade>>
chatVars == <<initialized, reqs>>
ragVars == <<similarityThreshold, maxRetrievedChunks, vectorStore, rag>>
fnVars == <<fn>>
vars == <<now, sessions, persisted, usedIds, msgSeq, added, ret,
          provider, credential, totalTokensUsed, requestCount, calls, callsMade,
          initialized, reqs, similarityThreshold, maxRetrievedChunks, vectorStore, rag, fn>>

----------------------------------------------------------------------------
(* ragPipeline.js: configuration and vector store.  A similarity is kept   *)
(* in tenths (0.7 is 7), and so is the threshold it is compared with.      *)

DefaultThreshold == 7
DefaultMaxChunks == 3

\* the chunks of the store file, as loadVectorStore returns them (the
\* embedding of a chunk is read by calculateCosineSimilarity only)
StoreChunks ==
  <<[id |-> "doc1_chunk_0", documentTitle |-> <<"F", "A", "Q">>,
     content |-> <<"S", "e", "e", " ", "d", "o", "c", "s", ".">>],
    [id |-> "doc1_chunk_1", documentTitle |-> <<"F", "A", "Q">>,
     content |-> <<"A", "s", "k", " ", "u", "s", ".">>],
    [id |-> "doc2_chunk_0", documentTitle |-> <<"A", "P", "I">>,
     content |-> <<"U", "s", "e", " ", "a", " ", "k", "e", "y", ".">>],
    [id |-> "doc2_chunk_1", documentTitle |-> <<"A", "P", "I">>,
     content |-> <<"S", "e", "e", " ", "F", "A", "Q", ".">>]>>

NoRag == [op |-> "none", ok |-> TRUE, similarities |-> <<>>, results |-> <<>>,
          retrieval |-> <<>>]

\* no function has been called yet
NoFn == [op |-> "none"]

InitRagVars ==
  /\ similarityThreshold = DefaultThreshold
  /\ maxRetrievedChunks = DefaultMaxChunks
  /\ vectorStore = SubSeq(StoreChunks, 1, 1)
  /\ rag = NoRag

----------------------------------------------------------------------------
(* JavaScript Map, kept as the sequence of its values in insertion order;  *)
(* every value carries its key in the field id.                            *)

MapKeys(m) == {m[i].id : i \in 1..Len(m)}
MapHas(m, k) == k \in MapKeys(m)
MapIndex(m, k) == CHOOSE i \in 1..Len(m) : m[i].id = k
MapGet(m, k) == m[MapIndex(m, k)]
MapSet(m, k, v) == IF MapHas(m, k) THEN [m EXCEPT ![MapIndex(m, k)] = v] ELSE Append(m, v)
MapDelete(m, k) == SelectSeq(m, LAMBDA e : e.id # k)

\* Array.prototype.slice(-n)
LastN(seq, n) == IF Len(seq) > n THEN SubSeq(seq, Len(seq) - n + 1, Len(seq)) ELSE seq

----------------------------------------------------------------------------
(* Conversation Store.  W is the record [sessions, persisted, writes]: the  *)
(* sessions Map, the content of the storage file and the number of times   *)
(* the file has been written during the call; every operator returns the   *)
(* record after the call together with the call's result.                  *)

\* mutants of isSessionExpired: the boundary included, and the boundary moved
isSessionExpired_inclusive(session, t) == (t - session.lastActivity) >= SessionTimeout
isSessionExpired_late(session, t) == (t - session.lastActivity) > SessionTimeout + 1

isSessionExpired(session, t) == (t - session.lastActivity) > SessionTimeout

\* the value undefined
Undefined == "undefined"

\* JSON.parse(JSON.stringify(session)): a property whose value is undefined
\* is left out; the other values of a session are strings, numbers, arrays
\* and objects of these, and are read back as written
stringify(session) ==
  [session EXCEPT !.metadata =
     [k \in {f \in DOMAIN session.metadata : session.metadata[f] # Undefined} |->
        session.metadata[k]]]

\* the sessions object of the file has one property per session, in the
\* order of the Map
saveSessions(W) ==
  [W EXCEPT !.persisted = [i \in 1..Len(W.sessions) |-> stringify(W.sessions[i])],
            !.writes = W.writes + 1]

\* mutant of createSession: the new session replaces the Map's content
createSession_alone(W, newId, metadata, t) ==
  LET session == [id |-> newId, createdAt |-> t, lastActivity |-> t,
                  messages |-> <<>>, metadata |-> metadata, messageCount |-> 0]
      W1 == [W EXCEPT !.sessions = <<session>>]
  IN [w |-> saveSessions(W1), val |-> newId, created |-> TRUE]

createSession(W, newId, metadata, t) ==
  LET session == [id |-> newId, createdAt |-> t, lastActivity |-> t,
                  messages |-> <<>>, metadata |-> metadata, messageCount |-> 0]
      W1 == [W EXCEPT !.sessions = MapSet(W.sessions, newId, session)]
  IN [w |-> saveSessions(W1), val |-> newId, created |-> TRUE]

\* mutant of getSession: an expired session is reported as absent and left
\* in the Map
getSession_keepExpired(W, sessionId, t) ==
  IF ~MapHas(W.sessions, sessionId) THEN [w |-> W, val |-> <<>>]
  ELSE IF isSessionExpired(MapGet(W.sessions, sessionId), t) THEN [w |-> W, val |-> <<>>]
  ELSE [w |-> W, val |-> <<MapGet(W.sessions, sessionId)>>]

\* mutant of getSession: the expired session is removed without a save
getSession_noSave(W, sessionId, t) ==
  IF ~MapHas(W.sessions, sessionId)
  THEN [w |-> W, val |-> <<>>]
  ELSE LET session == MapGet(W.sessions, sessionId) IN
       IF isSessionExpired(session, t)
       THEN [w |-> [W EXCEPT !.sessions = MapDelete(W.sessions, sessionId)], val |-> <<>>]
       ELSE [w |-> W, val |-> <<session>>]

\* val is <<>> for null and <<session>> otherwise
getSession(W, sessionId, t) ==
  IF ~MapHas(W.sessions, sessionId)
  THEN [w |-> W, val |-> <<>>]
  ELSE LET session == MapGet(W.sessions, sessionId) IN
       IF isSessionExpired(session, t)
       THEN [w |-> saveSessions([W EXCEPT !.sessions = MapDelete(W.sessions, sessionId)]),
             val |-> <<>>]
       ELSE [w |-> W, val |-> <<session>>]

\* mutant of getOrCreateSession: the live session is returned without a refresh
getOrCreateSession_noRefresh(W, sessionId, metadata, newId, t) ==
  IF sessionId = NoId
  THEN createSession(W, newId, metadata, t)
  ELSE LET g == getSession(W, sessionId, t) IN
       IF g.val # <<>>
       THEN [w |-> saveSessions(g.w), val |-> sessionId, created |-> FALSE]
       ELSE createSession(g.w, newId, metadata, t)

getOrCreateSession(W, sessionId, metadata, newId, t) ==
  IF sessionId = NoId
  THEN createSession(W, newId, metadata, t)
  ELSE LET g == getSession(W, sessionId, t) IN
       IF g.val # <<>>
       THEN LET session == [g.val[1] EXCEPT !.lastActivity = t]
                W1 == [g.w EXCEPT !.sessions = MapSet(g.w.sessions, sessionId, session)]
            IN [w |-> saveSessions(W1), val |-> sessionId, created |-> FALSE]
       ELSE createSession(g.w, newId, metadata, t)

\* mutant of Trim: the excess is cut from the end of the list
Trim_fromEnd(messages) ==
  IF Len(messages) > MaxHistoryLength
  THEN SubSeq(messages, 1, MaxHistoryLength)
  ELSE messages

Trim(messages) ==
  IF Len(messages) > MaxHistoryLength
  THEN LET excessMessages == Len(messages) - MaxHistoryLength
       IN SubSeq(messages, excessMessages + 1, Len(messages))
  ELSE messages

\* A message's random id and its timestamp are stored and never read by the
\* operations modelled here; they are left out of the record.
Message(role, content, meta, t) ==
  [role |-> role, content |-> content,
   tokensUsed |-> meta.tokensUsed, retrievedChunks |-> meta.retrievedChunks]

NoMeta == [tokensUsed |-> 0, retrievedChunks |-> 0]

\* mutant of addMessage: the count is taken from the list after trimming
addMessage_countsList(W, sessionId, role, content, meta, t) ==
  LET g == getSession(W, sessionId, t) IN
  IF g.val = <<>>
  THEN [w |-> g.w, ok |-> FALSE, val |-> <<>>]
  ELSE LET session == g.val[1]
           message == Message(role, content, meta, t)
           updated == [session EXCEPT
                         !.messages = Trim(Append(session.messages, message)),
                         !.messageCount = Len(Trim(Append(session.messages, message))),
                         !.lastActivity = t]
           W1 == [g.w EXCEPT !.sessions = MapSet(g.w.sessions, sessionId, updated)]
       IN [w |-> saveSessions(W1), ok |-> TRUE, val |-> <<updated>>]

\* mutant of addMessage: the list written back is the caller's own copy, which
\* holds the messages of its own role only, with the new message at its end
addMessage_ownCopy(W, sessionId, role, content, meta, t) ==
  LET g == getSession(W, sessionId, t) IN
  IF g.val = <<>>
  THEN [w |-> g.w, ok |-> FALSE, val |-> <<>>]
  ELSE LET session == g.val[1]
           message == Message(role, content, meta, t)
           own == SelectSeq(session.messages, LAMBDA m : m.role = role)
           updated == [session EXCEPT
                         !.messages = Trim(Append(own, message)),
                         !.messageCount = session.messageCount + 1,
                         !.lastActivity = t]
           W1 == [g.w EXCEPT !.sessions = MapSet(g.w.sessions, sessionId, updated)]
       IN [w |-> saveSessions(W1), ok |-> TRUE, val |-> <<updated>>]

\* ok = FALSE stands for the thrown Error("Session ... not found or expired")
addMessage(W, sessionId, role, content, meta, t) ==
  LET g == getSession(W, sessionId, t) IN
  IF g.val = <<>>
  THEN [w |-> g.w, ok |-> FALSE, val |-> <<>>]
  ELSE LET session == g.val[1]
           message == Message(role, content, meta, t)
           updated == [session EXCEPT
                         !.messages = Trim(Append(session.messages, message)),
                         !.messageCount = session.messageCount + 1,
                         !.lastActivity = t]
           W1 == [g.w EXCEPT !.sessions = MapSet(g.w.sessions, sessionId, updated)]
       IN [w |-> saveSessions(W1), ok |-> TRUE, val |-> <<updated>>]

deleteSession(W, sessionId) ==
  IF MapHas(W.sessions, sessionId)
  THEN [w |-> saveSessions([W EXCEPT !.sessions = MapDelete(W.sessions, sessionId)]),
        val |-> TRUE]
  ELSE [w |-> W, val |-> FALSE]

\* timestamps are left out of the entries, as they are out of the messages
getConversationHistory(W, sessionId, t) ==
  LET g == getSession(W, sessionId, t) IN
  IF g.val = <<>>
  THEN [w |-> g.w, val |-> <<>>]
  ELSE [w |-> g.w,
        val |-> [i \in 1..Len(g.val[1].messages) |->
                   [role |-> g.val[1].messages[i].role,
                    content |-> g.val[1].messages[i].content]]]

getFormattedHistory(W, sessionId, t) == getConversationHistory(W, sessionId, t)

\* mutant of clearConversation: the message count is kept
clearConversation_keepCount(W, sessionId, t) ==
  LET g == getSession(W, sessionId, t) IN
  IF g.val = <<>>
  THEN [w |-> g.w, ok |-> FALSE, val |-> <<>>]
  ELSE LET updated == [g.val[1] EXCEPT !.messages = <<>>,
                                       !.lastActivity = t]
           W1 == [g.w EXCEPT !.sessions = MapSet(g.w.sessions, sessionId, updated)]
       IN [w |-> saveSessions(W1), ok |-> TRUE, val |-> <<updated>>]

\* ok = FALSE stands for the thrown Error("Session ... not found or expired")
clearConversation(W, sessionId, t) ==
  LET g == getSession(W, sessionId, t) IN
  IF g.val = <<>>
  THEN [w |-> g.w, ok |-> FALSE, val |-> <<>>]
  ELSE LET updated == [g.val[1] EXCEPT !.messages = <<>>,
                                       !.messageCount = 0,
                                       !.lastActivity = t]
           W1 == [g.w EXCEPT !.sessions = MapSet(g.w.sessions, sessionId, updated)]
       IN [w |-> saveSessions(W1), ok |-> TRUE, val |-> <<updated>>]

\* mutant of loadSessions: every session of the file is taken
loadSessions_all(W, t) == [W EXCEPT !.sessions = W.persisted]

\* The file is absent only as long as nothing has been saved, and then the
\* Map is empty, as is the Map read from the empty snapshot <<>>.
loadSessions(W, t) ==
  [W EXCEPT !.sessions = SelectSeq(W.persisted, LAMBDA session : ~isSessionExpired(session, t))]

\* mutant of cleanupExpiredSessions: the file is written after every deletion
cleanupExpiredSessions_savePerDeletion(W, t) ==
  LET expiredSessions == {s \in MapKeys(W.sessions) : isSessionExpired(MapGet(W.sessions, s), t)}
      W1 == [W EXCEPT !.sessions = SelectSeq(W.sessions, LAMBDA s : s.id \notin expiredSessions)]
  IN IF expiredSessions # {}
     THEN [saveSessions(W1) EXCEPT !.writes = W.writes + Cardinality(expiredSessions)]
     ELSE W1

\* mutant of cleanupExpiredSessions: the deletions are not written to the file
cleanupExpiredSessions_memoryOnly(W, t) ==
  LET expiredSessions == {s \in MapKeys(W.sessions) : isSessionExpired(MapGet(W.sessions, s), t)}
  IN [W EXCEPT !.sessions = SelectSeq(W.sessions, LAMBDA s : s.id \notin expiredSessions)]

cleanupExpiredSessions(W, t) ==
  LET expiredSessions == {s \in MapKeys(W.sessions) : isSessionExpired(MapGet(W.sessions, s), t)}
      W1 == [W EXCEPT !.sessions = SelectSeq(W.sessions, LAMBDA s : s.id \notin expiredSessions)]
  IN IF expiredSessions # {} THEN saveSessions(W1) ELSE W1

\* Insertion of x into a sequence sorted by lastActivity descending, after
\* every entry that does not come later than x (Array.prototype.sort is stable).
RECURSIVE SortByActivity(_)
SortByActivity(list) ==
  IF list = <<>> THEN <<>>
  ELSE LET rest == SortByActivity(Tail(list))
           x == Head(list)
           before == SelectSeq(rest, LAMBDA e : e.lastActivity > x.lastActivity)
           after == SelectSeq(rest, LAMBDA e : e.lastActivity <= x.lastActivity)
       IN before \o <<x>> \o after

getAllSessions(W, t) ==
  LET active == SelectSeq(W.sessions, LAMBDA s : ~isSessionExpired(s, t))
      entry(s) == [id |-> s.id, createdAt |-> s.createdAt, lastActivity |-> s.lastActivity,
                   messageCount |-> s.messageCount, metadata |-> s.metadata]
  IN SortByActivity([i \in 1..Len(active) |-> entry(active[i])])

\* Array.prototype.reduce((sum, x) => sum + x, 0)
RECURSIVE reduceSum(_)
reduceSum(numbers) ==
  IF numbers = <<>> THEN 0 ELSE Head(numbers) + reduceSum(Tail(numbers))

\* Math.round of a quotient of non-negative integers
Round(a, b) == (2 * a + b) \div (2 * b)

\* val is <<>> for null and <<stats>> otherwise
getSessionStats(W, sessionId, t) ==
  LET g == getSession(W, sessionId, t) IN
  IF g.val = <<>>
  THEN [w |-> g.w, val |-> <<>>]
  ELSE LET session == g.val[1]
           userMessages == SelectSeq(session.messages, LAMBDA msg : msg.role = "user")
           assistantMessages == SelectSeq(session.messages, LAMBDA msg : msg.role = "assistant")
           totalTokensUsed_ == reduceSum([i \in 1..Len(session.messages) |->
                                            session.messages[i].tokensUsed])
       IN [w |-> g.w,
           val |-> <<[sessionId |-> session.id,
                      createdAt |-> session.createdAt,
                      lastActivity |-> session.lastActivity,
                      messageCount |-> session.messageCount,
                      userMessageCount |-> Len(userMessages),
                      assistantMessageCount |-> Len(assistantMessages),
                      totalTokensUsed |-> totalTokensUsed_,
                      averageTokensPerMessage |->
                        IF session.messageCount > 0
                        THEN Round(totalTokensUsed_, session.messageCount) ELSE 0,
                      isExpired |-> isSessionExpired(session, t)]>>]

getSystemStats(W, t) ==
  LET allSessions == getAllSessions(W, t)
      totalMessages == reduceSum([i \in 1..Len(allSessions) |-> allSessions[i].messageCount])
  IN [totalActiveSessions |-> Len(allSessions),
      totalMessages |-> totalMessages,
      averageMessagesPerSession |->
        IF Len(allSessions) > 0 THEN Round(totalMessages, Len(allSessions)) ELSE 0]

Listed(list) == [i \in 1..Len(list) |-> list[i].id]

----------------------------------------------------------------------------
(* Actions of the Conversation Store *)

\* the history of a session ends when the session leaves the store
Forget(hist, m) == [s \in DOMAIN hist |-> IF MapHas(m, s) THEN hist[s] ELSE <<>>]

RoleOf(n) == IF n % 2 = 1 THEN "user" ELSE "assistant"

World == [sessions |-> sessions, persisted |-> persisted, writes |-> 0]

Ret(op, id, ok, val, list) == [op |-> op, id |-> id, ok |-> ok, list |-> list]

Tick ==
  /\ now < MaxTime
  /\ now' = now + 1
  /\ UNCHANGED <<sessions, persisted, usedIds, msgSeq, added, ret>>
  /\ UNCHANGED <<llmVars, chatVars, ragVars, fnVars>>

CreateSession(metadata, newId) ==
  /\ newId \notin usedIds
  /\ LET r == createSession(World, newId, metadata, now) IN
       /\ sessions' = r.w.sessions
       /\ persisted' = r.w.persisted
       /\ ret' = Ret("createSession", r.val, TRUE, <<>>, <<>>)
  /\ usedIds' = usedIds \cup {newId}
  /\ added' = [added EXCEPT ![newId] = <<>>]
  /\ UNCHANGED <<now, msgSeq>>
  /\ UNCHANGED <<llmVars, chatVars, ragVars, fnVars>>

GetOrCreateSession(sessionId, metadata, newId) ==
  /\ LET r == getOrCreateSession(World, sessionId, metadata, newId, now) IN
       /\ sessions' = r.w.sessions
       /\ persisted' = r.w.persisted
       /\ ret' = Ret("getOrCreateSession", r.val, TRUE, <<>>, <<>>)
       /\ r.created => newId \notin usedIds
       /\ usedIds' = IF r.created THEN usedIds \cup {newId} ELSE usedIds
       /\ added' = Forget(added, r.w.sessions)
  /\ UNCHANGED <<now, msgSeq>>
  /\ UNCHANGED <<llmVars, chatVars, ragVars, fnVars>>

GetSession(sessionId) ==
  /\ LET r == getSession(World, sessionId, now) IN
       /\ sessions' = r.w.sessions
       /\ persisted' = r.w.persisted
       /\ ret' = Ret("getSession", sessionId, r.val # <<>>, r.val, <<>>)
       /\ added' = Forget(added, r.w.sessions)
  /\ UNCHANGED <<now, usedIds, msgSeq>>
  /\ UNCHANGED <<llmVars, chatVars, ragVars, fnVars>>

\* The store never inspects a message: the caller tags each message with its
\* ordinal among the session's additions, which makes the messages of a
\* session distinct, and alternates the roles (RoleOf) as a dialogue does.
AddMessage(sessionId, role, content) ==
  /\ msgSeq < MaxMsgs
  /\ content = Len(added[sessionId]) + 1
  /\ role = RoleOf(content)
  /\ LET r == addMessage(World, sessionId, role, content, NoMeta, now) IN
       /\ sessions' = r.w.sessions
       /\ persisted' = r.w.persisted
       /\ ret' = Ret("addMessage", sessionId, r.ok, r.val, <<>>)
       /\ added' = IF r.ok
                   THEN [added EXCEPT ![sessionId] = Append(@, Message(role, content, NoMeta, now))]
                   ELSE Forget(added, r.w.sessions)
       /\ msgSeq' = IF r.ok THEN msgSeq + 1 ELSE msgSeq
  /\ UNCHANGED <<now, usedIds>>
  /\ UNCHANGED <<llmVars, chatVars, ragVars, fnVars>>

DeleteSession(sessionId) ==
  /\ LET r == deleteSession(World, sessionId) IN
       /\ sessions' = r.w.sessions
       /\ persisted' = r.w.persisted
       /\ ret' = Ret("deleteSession", sessionId, r.val, <<>>, <<>>)
       /\ added' = Forget(added, r.w.sessions)
  /\ UNCHANGED <<now, usedIds, msgSeq>>
  /\ UNCHANGED <<llmVars, chatVars, ragVars, fnVars>>

GetAllSessions ==
  /\ ret' = Ret("getAllSessions", NoId, TRUE, <<>>, Listed(getAllSessions(World, now)))
  /\ UNCHANGED <<now, sessions, persisted, usedIds, msgSeq, added>>
  /\ UNCHANGED <<llmVars, chatVars, ragVars, fnVars>>

ClearConversation(sessionId) ==
  /\ LET r == clearConversation(World, sessionId, now) IN
       /\ sessions' = r.w.sessions
       /\ persisted' = r.w.persisted
       /\ ret' = Ret("clearConversation", sessionId, r.ok, r.val, <<>>)
       /\ added' = IF r.ok THEN [added EXCEPT ![sessionId] = <<>>]
                   ELSE Forget(added, r.w.sessions)
  /\ UNCHANGED <<now, usedIds, msgSeq>>
  /\ UNCHANGED <<llmVars, chatVars, ragVars, fnVars>>

\* a run of cleanupExpiredSessions, as the timer of startSessionCleanup or a
\* caller of the exported function makes it; the list recorded is its local
\* expiredSessions
SweepExpiredSessions ==
  /\ LET W == cleanupExpiredSessions(World, now) IN
       /\ sessions' = W.sessions
       /\ persisted' = W.persisted
       /\ ret' = Ret("cleanupExpiredSessions", NoId, TRUE, <<>>,
                     Listed(SelectSeq(sessions, LAMBDA s : isSessionExpired(s, now))))
       /\ added' = Forget(added, W.sessions)
  /\ UNCHANGED <<now, usedIds, msgSeq>>
  /\ UNCHANGED <<llmVars, chatVars, ragVars, fnVars>>

LoadSessions ==
  /\ LET W == loadSessions(World, now) IN
       /\ sessions' = W.sessions
       /\ persisted' = W.persisted
       /\ ret' = Ret("loadSessions", NoId, TRUE, <<>>, <<>>)
       /\ added' = Forget(added, W.sessions)
  /\ UNCHANGED <<now, usedIds, msgSeq>>
  /\ UNCHANGED <<llmVars, chatVars, ragVars, fnVars>>

GetConversationHistory(sessionId) ==
  /\ LET r == getConversationHistory(World, sessionId, now) IN
       /\ sessions' = r.w.sessions
       /\ persisted' = r.w.persisted
       /\ ret' = Ret("getConversationHistory", sessionId, TRUE, <<>>, r.val)
       /\ added' = Forget(added, r.w.sessions)
  /\ UNCHANGED <<now, usedIds, msgSeq>>
  /\ UNCHANGED <<llmVars, chatVars, ragVars, fnVars>>

GetSessionStats(sessionId) ==
  /\ LET r == getSessionStats(World, sessionId, now) IN
       /\ sessions' = r.w.sessions
       /\ persisted' = r.w.persisted
       /\ ret' = Ret("getSessionStats", sessionId, r.val # <<>>, <<>>, r.val)
       /\ added' = Forget(added, r.w.sessions)
  /\ UNCHANGED <<now, usedIds, msgSeq>>
  /\ UNCHANGED <<llmVars, chatVars, ragVars, fnVars>>

GetSystemStats ==
  /\ ret' = Ret("getSystemStats", NoId, TRUE, <<>>, <<getSystemStats(World, now)>>)
  /\ UNCHANGED <<now, sessions, persisted, usedIds, msgSeq, added>>
  /\ UNCHANGED <<llmVars, chatVars, ragVars, fnVars>>

InitStoreVars ==
  /\ now = 0
  /\ sessions = <<>>
  /\ persisted = <<>>
  /\ usedIds = {}
  /\ msgSeq = 0
  /\ added = [s \in ClientIds |-> <<>>]
  /\ ret = [op |-> "none", id |-> NoId, ok |-> TRUE, list |-> <<>>]

InitStore ==
  /\ InitStoreVars
  /\ provider = "gemini"
  /\ credential = FALSE
  /\ totalTokensUsed = 0
  /\ requestCount = 0
  /\ calls = [c \in Callers |-> [pc |-> "idle"]]
  /\ callsMade = 0
  /\ initialized = TRUE
  /\ reqs = [c \in Callers |-> [pc |-> "idle"]]
  /\ InitRagVars
  /\ fn = NoFn

NextStore ==
  \/ Tick
  \/ \E m \in Metadata, n \in SessionIds : CreateSession(m, n)
  \/ \E s \in ClientIds, m \in Metadata, n \in SessionIds : GetOrCreateSession(s, m, n)
  \/ \E s \in ClientIds \ {NoId} : GetSession(s)
  \/ \E s \in ClientIds \ {NoId}, r \in Roles, c \in 1..MaxMsgs : AddMessage(s, r, c)
  \/ \E s \in ClientIds \ {NoId} : DeleteSession(s)
  \/ GetAllSessions

SpecStore == InitStore /\ [][NextStore]_vars

\* the number of messages added in all under SpecPersist
MaxPersistMsgs == 2

\* the metadata of a request that came without a User-Agent header
NoUserAgent == [ip |-> "ip1", userAgent |-> Undefined]

\* the Conversation Store with its storage file: every exported operation
\* that changes the Map, and loadSessions
NextPersist ==
  \/ Tick
  \/ \E n \in SessionIds : CreateSession(NoUserAgent, n)
  \/ \E s \in SessionIds \cup {NoId}, n \in SessionIds : GetOrCreateSession(s, NoUserAgent, n)
  \/ \E s \in SessionIds : GetSession(s)
  \/ \E s \in SessionIds, r \in Roles, c \in 1..MaxPersistMsgs :
       msgSeq < MaxPersistMsgs /\ AddMessage(s, r, c)
  \/ \E s \in SessionIds : ClearConversation(s)
  \/ \E s \in SessionIds : DeleteSession(s)
  \/ SweepExpiredSessions
  \/ LoadSessions

SpecPersist == InitStore /\ [][NextPersist]_vars

\* The Conversation Store after initialize(): the file has been read once,
\* and the interval timer of startSessionCleanup runs cleanupExpiredSessions
\* again and again while callers use the exported operations.
NextSweep ==
  \/ Tick
  \/ \E n \in SessionIds : CreateSession(NoUserAgent, n)
  \/ \E s \in SessionIds \cup {NoId}, n \in SessionIds : GetOrCreateSession(s, NoUserAgent, n)
  \/ \E s \in SessionIds : GetSession(s)
  \/ \E s \in SessionIds, r \in Roles, c \in 1..MaxPersistMsgs :
       msgSeq < MaxPersistMsgs /\ AddMessage(s, r, c)
  \/ \E s \in SessionIds : ClearConversation(s)
  \/ \E s \in SessionIds : DeleteSession(s)
  \/ SweepExpiredSessions

\* setInterval keeps firing
SweepFires == WF_vars(SweepExpiredSessions)

SpecSweep == InitStore /\ [][NextSweep]_vars /\ SweepFires

\* the operations of the Conversation Store that look a session up or list
\* the sessions, over sessions that are created, written to and left to expire
NextLookup ==
  \/ Tick
  \/ \E n \in SessionIds : CreateSession(NoUserAgent, n)
  \/ \E s \in SessionIds, n \in SessionIds : GetOrCreateSession(s, NoUserAgent, n)
  \/ \E s \in SessionIds : GetSession(s)
  \/ \E s \in SessionIds, r \in Roles, c \in 1..MaxPersistMsgs :
       msgSeq < MaxPersistMsgs /\ AddMessage(s, r, c)
  \/ \E s \in SessionIds : ClearConversation(s)
  \/ \E s \in SessionIds : GetConversationHistory(s)
  \/ \E s \in SessionIds : GetSessionStats(s)
  \/ GetAllSessions
  \/ GetSystemStats

SpecLookup == InitStore /\ [][NextLookup]_vars

\* sessions that are written to until their lists are trimmed, cleared and
\* written to again, with the statistics read in between
NextCount ==
  \/ \E n \in SessionIds : CreateSession(NoUserAgent, n)
  \/ \E s \in SessionIds, r \in Roles, c \in 1..MaxMsgs : AddMessage(s, r, c)
  \/ \E s \in SessionIds : ClearConversation(s)
  \/ \E s \in SessionIds : GetSessionStats(s)

SpecCount == InitStore /\ [][NextCount]_vars

----------------------------------------------------------------------------
(* Texts *)

Instruction1 == "You are a helpful AI assistant. Answer the user's question based ONLY on the provided context. "
Instruction2 == "If the context doesn't contain enough information to answer the question, say so clearly. "
Instruction3 == "Do not make up information or hallucinate answers.\n\n"
HistoryHeader == "=== CONVERSATION HISTORY ===\n"
ContextHeader == "=== RELEVANT CONTEXT ===\n"
ContextFooter == "=== END OF CONTEXT ===\n\n"
QuestionHeader == "=== USER QUESTION ===\n"
ResponseHeader == "\n\n=== YOUR RESPONSE ===\n"
DocumentOpen == "[Document "
DocumentClose == "]\n"
InsufficientOpen == "I don't have enough information in my knowledge base to answer: \""
InsufficientClose == "\". Please try rephrasing your question or contact support for more specific assistance."
FallbackContent == "I apologize, but I'm currently experiencing issues with the AI service. This might be due to API quota limits or temporary service disruptions. The RAG system is working correctly - I can still retrieve relevant documents, but I'm unable to generate AI responses right now. Please try again later or contact support if the issue persists."
ErrorReply == "I apologize, but I encountered an error while generating a response. Please try again."
ProviderAnswer == "Open Settings > Billing."

\* the responses object of generateMockResponse, in key order
MockResponses ==
  << [key |-> <<"h", "e", "l", "l", "o">>,
      response |-> "Hello! How can I help you today? I can assist with account management, security settings, billing inquiries, mobile app features, troubleshooting, and API integration."],
     [key |-> <<"h", "i">>,
      response |-> "Hi there! What can I help you with? I'm here to assist with account management, security settings, billing, mobile app features, troubleshooting, and API integration."],
     [key |-> <<"h", "e", "y">>,
      response |-> "Hey! How can I assist you today? I can help with account management, security settings, billing inquiries, mobile app features, troubleshooting, and API integration."],
     [key |-> <<"g", "o", "o", "d", " ", "m", "o", "r", "n", "i", "n", "g">>,
      response |-> "Good morning! How can I help you today? I'm your RAG-powered assistant ready to assist with account management, security settings, billing, and more."],
     [key |-> <<"g", "o", "o", "d", " ", "a", "f", "t", "e", "r", "n", "o", "o", "n">>,
      response |-> "Good afternoon! What can I help you with today? I'm here to assist with account management, security settings, billing, mobile app features, and more."],
     [key |-> <<"g", "o", "o", "d", " ", "e", "v", "e", "n", "i", "n", "g">>,
      response |-> "Good evening! How can I assist you today? I'm your RAG-powered assistant ready to help with account management, security settings, billing, and more."],
     [key |-> <<"t", "h", "a", "n", "k", "s">>,
      response |-> "You're welcome! Is there anything else I can help you with?"],
     [key |-> <<"t", "h", "a", "n", "k", " ", "y", "o", "u">>,
      response |-> "You're welcome! Is there anything else I can assist you with?"],
     [key |-> <<"b", "y", "e">>,
      response |-> "Goodbye! Feel free to come back anytime if you need help."],
     [key |-> <<"g", "o", "o", "d", "b", "y", "e">>,
      response |-> "Goodbye! Have a great day and come back anytime you need assistance."],
     [key |-> <<"h", "e", "l", "p">>,
      response |-> "I can help you with: account management, security settings, billing inquiries, mobile app features, troubleshooting, and API integration. What would you like to know?"],
     [key |-> <<"p", "a", "s", "s", "w", "o", "r", "d">>,
      response |-> "You can reset your password from Settings > Security. Click on \"Change Password\" and enter your current password followed by the new password."],
     [key |-> <<"a", "c", "c", "o", "u", "n", "t">>,
      response |-> "To set up a new account, click on the \"Sign Up\" button on the homepage. Enter your email address, create a strong password, and provide your full name."],
     [key |-> <<"2", "f", "a">>,
      response |-> "Two-Factor Authentication (2FA) adds an extra layer of security. Enable 2FA from Settings > Security > Two-Factor Authentication."],
     [key |-> <<"b", "i", "l", "l", "i", "n", "g">>,
      response |-> "We accept various payment methods including credit cards, debit cards, and PayPal. You can update your payment method from Settings > Billing."],
     [key |-> <<"m", "o", "b", "i", "l", "e">>,
      response |-> "Our mobile app is available for both iOS and Android devices. Download it from the App Store or Google Play Store."],
     [key |-> <<"t", "r", "o", "u", "b", "l", "e", "s", "h", "o", "o", "t">>,
      response |-> "If you're having trouble logging in, first check your internet connection, clear your browser cache and cookies, then try again."],
     [key |-> <<"a", "p", "i">>,
      response |-> "Our API allows developers to integrate our services. Visit the Developer Dashboard to generate an API key and access comprehensive documentation."],
     [key |-> <<"d", "e", "f", "a", "u", "l", "t">>,
      response |-> "I can help you with account management, security settings, billing inquiries, mobile app features, troubleshooting, and API integration. Please ask me about any of these topics or try rephrasing your question."] >>

\* the characters of the texts the model keeps in one piece
Expand ==
  ("You are a helpful AI assistant. Answer the user's question based ONLY on the provided context. " :>
     <<"Y", "o", "u", " ", "a", "r", "e", " ", "a", " ", "h", "e", "l", "p", "f", "u", "l", " ", "A", "I", " ", "a", "s", "s", "i", "s", "t", "a", "n", "t", ".", " ", "A", "n", "s", "w", "e", "r", " ", "t", "h", "e", " ", "u", "s", "e", "r", "'", "s", " ", "q", "u", "e", "s", "t", "i", "o", "n", " ", "b", "a", "s", "e", "d", " ", "O", "N", "L", "Y", " ", "o", "n", " ", "t", "h", "e", " ", "p", "r", "o", "v", "i", "d", "e", "d", " ", "c", "o", "n", "t", "e", "x", "t", ".", " ">>) @@
  ("If the context doesn't contain enough information to answer the question, say so clearly. " :>
     <<"I", "f", " ", "t", "h", "e", " ", "c", "o", "n", "t", "e", "x", "t", " ", "d", "o", "e", "s", "n", "'", "t", " ", "c", "o", "n", "t", "a", "i", "n", " ", "e", "n", "o", "u", "g", "h", " ", "i", "n", "f", "o", "r", "m", "a", "t", "i", "o", "n", " ", "t", "o", " ", "a", "n", "s", "w", "e", "r", " ", "t", "h", "e", " ", "q", "u", "e", "s", "t", "i", "o", "n", ",", " ", "s", "a", "y", " ", "s", "o", " ", "c", "l", "e", "a", "r", "l", "y", ".", " ">>) @@
  ("Do not make up information or hallucinate answers.\n\n" :>
     <<"D", "o", " ", "n", "o", "t", " ", "m", "a", "k", "e", " ", "u", "p", " ", "i", "n", "f", "o", "r", "m", "a", "t", "i", "o", "n", " ", "o", "r", " ", "h", "a", "l", "l", "u", "c", "i", "n", "a", "t", "e", " ", "a", "n", "s", "w", "e", "r", "s", ".", "\n", "\n">>) @@
  ("=== CONVERSATION HISTORY ===\n" :>
     <<"=", "=", "=", " ", "C", "O", "N", "V", "E", "R", "S", "A", "T", "I", "O", "N", " ", "H", "I", "S", "T", "O", "R", "Y", " ", "=", "=", "=", "\n">>) @@
  ("=== RELEVANT CONTEXT ===\n" :>
     <<"=", "=", "=", " ", "R", "E", "L", "E", "V", "A", "N", "T", " ", "C", "O", "N", "T", "E", "X", "T", " ", "=", "=", "=", "\n">>) @@
  ("=== END OF CONTEXT ===\n\n" :>
     <<"=", "=", "=", " ", "E", "N", "D", " ", "O", "F", " ", "C", "O", "N", "T", "E", "X", "T", " ", "=", "=", "=", "\n", "\n">>) @@
  ("=== USER QUESTION ===\n" :>
     <<"=", "=", "=", " ", "U", "S", "E", "R", " ", "Q", "U", "E", "S", "T", "I", "O", "N", " ", "=", "=", "=", "\n">>) @@
  ("\n\n=== YOUR RESPONSE ===\n" :>
     <<"\n", "\n", "=", "=", "=", " ", "Y", "O", "U", "R", " ", "R", "E", "S", "P", "O", "N", "S", "E", " ", "=", "=", "=", "\n">>) @@
  ("[Document " :>
     <<"[", "D", "o", "c", "u", "m", "e", "n", "t", " ">>) @@
  ("]\n" :>
     <<"]", "\n">>) @@
  ("I don't have enough information in my knowledge base to answer: \"" :>
     <<"I", " ", "d", "o", "n", "'", "t", " ", "h", "a", "v", "e", " ", "e", "n", "o", "u", "g", "h", " ", "i", "n", "f", "o", "r", "m", "a", "t", "i", "o", "n", " ", "i", "n", " ", "m", "y", " ", "k", "n", "o", "w", "l", "e", "d", "g", "e", " ", "b", "a", "s", "e", " ", "t", "o", " ", "a", "n", "s", "w", "e", "r", ":", " ", "\"">>) @@
  ("\". Please try rephrasing your question or contact support for more specific assistance." :>
     <<"\"", ".", " ", "P", "l", "e", "a", "s", "e", " ", "t", "r", "y", " ", "r", "e", "p", "h", "r", "a", "s", "i", "n", "g", " ", "y", "o", "u", "r", " ", "q", "u", "e", "s", "t", "i", "o", "n", " ", "o", "r", " ", "c", "o", "n", "t", "a", "c", "t", " ", "s", "u", "p", "p", "o", "r", "t", " ", "f", "o", "r", " ", "m", "o", "r", "e", " ", "s", "p", "e", "c", "i", "f", "i", "c", " ", "a", "s", "s", "i", "s", "t", "a", "n", "c", "e", ".">>) @@
  ("I apologize, but I'm currently experiencing issues with the AI service. This might be due to API quota limits or temporary service disruptions. The RAG system is working correctly - I can still retrieve relevant documents, but I'm unable to generate AI responses right now. Please try again later or contact support if the issue persists." :>
     <<"I", " ", "a", "p", "o", "l", "o", "g", "i", "z", "e", ",", " ", "b", "u", "t", " ", "I", "'", "m", " ", "c", "u", "r", "r", "e", "n", "t", "l", "y", " ", "e", "x", "p", "e", "r", "i", "e", "n", "c", "i", "n", "g", " ", "i", "s", "s", "u", "e", "s", " ", "w", "i", "t", "h", " ", "t", "h", "e", " ", "A", "I", " ", "s", "e", "r", "v", "i", "c", "e", ".", " ", "T", "h", "i", "s", " ", "m", "i", "g", "h", "t", " ", "b", "e", " ", "d", "u", "e", " ", "t", "o", " ", "A", "P", "I", " ", "q", "u", "o", "t", "a", " ", "l", "i", "m", "i", "t", "s", " ", "o", "r", " ", "t", "e", "m", "p", "o", "r", "a", "r", "y", " ", "s", "e", "r", "v", "i", "c", "e", " ", "d", "i", "s", "r", "u", "p", "t", "i", "o", "n", "s", ".", " ", "T", "h", "e", " ", "R", "A", "G", " ", "s", "y", "s", "t", "e", "m", " ", "i", "s", " ", "w", "o", "r", "k", "i", "n", "g", " ", "c", "o", "r", "r", "e", "c", "t", "l", "y", " ", "-", " ", "I", " ", "c", "a", "n", " ", "s", "t", "i", "l", "l", " ", "r", "e", "t", "r", "i", "e", "v", "e", " ", "r", "e", "l", "e", "v", "a", "n", "t", " ", "d", "o", "c", "u", "m", "e", "n", "t", "s", ",", " ", "b", "u", "t", " ", "I", "'", "m", " ", "u", "n", "a", "b", "l", "e", " ", "t", "o", " ", "g", "e", "n", "e", "r", "a", "t", "e", " ", "A", "I", " ", "r", "e", "s", "p", "o", "n", "s", "e", "s", " ", "r", "i", "g", "h", "t", " ", "n", "o", "w", ".", " ", "P", "l", "e", "a", "s", "e", " ", "t", "r", "y", " ", "a", "g", "a", "i", "n", " ", "l", "a", "t", "e", "r", " ", "o", "r", " ", "c", "o", "n", "t", "a", "c", "t", " ", "s", "u", "p", "p", "o", "r", "t", " ", "i", "f", " ", "t", "h", "e", " ", "i", "s", "s", "u", "e", " ", "p", "e", "r", "s", "i", "s", "t", "s", ".">>) @@
  ("I apologize, but I encountered an error while generating a response. Please try again." :>
     <<"I", " ", "a", "p", "o", "l", "o", "g", "i", "z", "e", ",", " ", "b", "u", "t", " ", "I", " ", "e", "n", "c", "o", "u", "n", "t", "e", "r", "e", "d", " ", "a", "n", " ", "e", "r", "r", "o", "r", " ", "w", "h", "i", "l", "e", " ", "g", "e", "n", "e", "r", "a", "t", "i", "n", "g", " ", "a", " ", "r", "e", "s", "p", "o", "n", "s", "e", ".", " ", "P", "l", "e", "a", "s", "e", " ", "t", "r", "y", " ", "a", "g", "a", "i", "n", ".">>) @@
  ("Open Settings > Billing." :>
     <<"O", "p", "e", "n", " ", "S", "e", "t", "t", "i", "n", "g", "s", " ", ">", " ", "B", "i", "l", "l", "i", "n", "g", ".">>) @@
  ("Hello! How can I help you today? I can assist with account management, security settings, billing inquiries, mobile app features, troubleshooting, and API integration." :>
     <<"H", "e", "l", "l", "o", "!", " ", "H", "o", "w", " ", "c", "a", "n", " ", "I", " ", "h", "e", "l", "p", " ", "y", "o", "u", " ", "t", "o", "d", "a", "y", "?", " ", "I", " ", "c", "a", "n", " ", "a", "s", "s", "i", "s", "t", " ", "w", "i", "t", "h", " ", "a", "c", "c", "o", "u", "n", "t", " ", "m", "a", "n", "a", "g", "e", "m", "e", "n", "t", ",", " ", "s", "e", "c", "u", "r", "i", "t", "y", " ", "s", "e", "t", "t", "i", "n", "g", "s", ",", " ", "b", "i", "l", "l", "i", "n", "g", " ", "i", "n", "q", "u", "i", "r", "i", "e", "s", ",", " ", "m", "o", "b", "i", "l", "e", " ", "a", "p", "p", " ", "f", "e", "a", "t", "u", "r", "e", "s", ",", " ", "t", "r", "o", "u", "b", "l", "e", "s", "h", "o", "o", "t", "i", "n", "g", ",", " ", "a", "n", "d", " ", "A", "P", "I", " ", "i", "n", "t", "e", "g", "r", "a", "t", "i", "o", "n", ".">>) @@
  ("Hi there! What can I help you with? I'm here to assist with account management, security settings, billing, mobile app features, troubleshooting, and API integration." :>
     <<"H", "i", " ", "t", "h", "e", "r", "e", "!", " ", "W", "h", "a", "t", " ", "c", "a", "n", " ", "I", " ", "h", "e", "l", "p", " ", "y", "o", "u", " ", "w", "i", "t", "h", "?", " ", "I", "'", "m", " ", "h", "e", "r", "e", " ", "t", "o", " ", "a", "s", "s", "i", "s", "t", " ", "w", "i", "t", "h", " ", "a", "c", "c", "o", "u", "n", "t", " ", "m", "a", "n", "a", "g", "e", "m", "e", "n", "t", ",", " ", "s", "e", "c", "u", "r", "i", "t", "y", " ", "s", "e", "t", "t", "i", "n", "g", "s", ",", " ", "b", "i", "l", "l", "i", "n", "g", ",", " ", "m", "o", "b", "i", "l", "e", " ", "a", "p", "p", " ", "f", "e", "a", "t", "u", "r", "e", "s", ",", " ", "t", "r", "o", "u", "b", "l", "e", "s", "h", "o", "o", "t", "i", "n", "g", ",", " ", "a", "n", "d", " ", "A", "P", "I", " ", "i", "n", "t", "e", "g", "r", "a", "t", "i", "o", "n", ".">>) @@
  ("Hey! How can I assist you today? I can help with account management, security settings, billing inquiries, mobile app features, troubleshooting, and API integration." :>
     <<"H", "e", "y", "!", " ", "H", "o", "w", " ", "c", "a", "n", " ", "I", " ", "a", "s", "s", "i", "s", "t", " ", "y", "o", "u", " ", "t", "o", "d", "a", "y", "?", " ", "I", " ", "c", "a", "n", " ", "h", "e", "l", "p", " ", "w", "i", "t", "h", " ", "a", "c", "c", "o", "u", "n", "t", " ", "m", "a", "n", "a", "g", "e", "m", "e", "n", "t", ",", " ", "s", "e", "c", "u", "r", "i", "t", "y", " ", "s", "e", "t", "t", "i", "n", "g", "s", ",", " ", "b", "i", "l", "l", "i", "n", "g", " ", "i", "n", "q", "u", "i", "r", "i", "e", "s", ",", " ", "m", "o", "b", "i", "l", "e", " ", "a", "p", "p", " ", "f", "e", "a", "t", "u", "r", "e", "s", ",", " ", "t", "r", "o", "u", "b", "l", "e", "s", "h", "o", "o", "t", "i", "n", "g", ",", " ", "a", "n", "d", " ", "A", "P", "I", " ", "i", "n", "t", "e", "g", "r", "a", "t", "i", "o", "n", ".">>) @@
  ("Good morning! How can I help you today? I'm your RAG-powered assistant ready to assist with account management, security settings, billing, and more." :>
     <<"G", "o", "o", "d", " ", "m", "o", "r", "n", "i", "n", "g", "!", " ", "H", "o", "w", " ", "c", "a", "n", " ", "I", " ", "h", "e", "l", "p", " ", "y", "o", "u", " ", "t", "o", "d", "a", "y", "?", " ", "I", "'", "m", " ", "y", "o", "u", "r", " ", "R", "A", "G", "-", "p", "o", "w", "e", "r", "e", "d", " ", "a", "s", "s", "i", "s", "t", "a", "n", "t", " ", "r", "e", "a", "d", "y", " ", "t", "o", " ", "a", "s", "s", "i", "s", "t", " ", "w", "i", "t", "h", " ", "a", "c", "c", "o", "u", "n", "t", " ", "m", "a", "n", "a", "g", "e", "m", "e", "n", "t", ",", " ", "s", "e", "c", "u", "r", "i", "t", "y", " ", "s", "e", "t", "t", "i", "n", "g", "s", ",", " ", "b", "i", "l", "l", "i", "n", "g", ",", " ", "a", "n", "d", " ", "m", "o", "r", "e", ".">>) @@
  ("Good afternoon! What can I help you with today? I'm here to assist with account management, security settings, billing, mobile app features, and more." :>
     <<"G", "o", "o", "d", " ", "a", "f", "t", "e", "r", "n", "o", "o", "n", "!", " ", "W", "h", "a", "t", " ", "c", "a", "n", " ", "I", " ", "h", "e", "l", "p", " ", "y", "o", "u", " ", "w", "i", "t", "h", " ", "t", "o", "d", "a", "y", "?", " ", "I", "'", "m", " ", "h", "e", "r", "e", " ", "t", "o", " ", "a", "s", "s", "i", "s", "t", " ", "w", "i", "t", "h", " ", "a", "c", "c", "o", "u", "n", "t", " ", "m", "a", "n", "a", "g", "e", "m", "e", "n", "t", ",", " ", "s", "e", "c", "u", "r", "i", "t", "y", " ", "s", "e", "t", "t", "i", "n", "g", "s", ",", " ", "b", "i", "l", "l", "i", "n", "g", ",", " ", "m", "o", "b", "i", "l", "e", " ", "a", "p", "p", " ", "f", "e", "a", "t", "u", "r", "e", "s", ",", " ", "a", "n", "d", " ", "m", "o", "r", "e", ".">>) @@
  ("Good evening! How can I assist you today? I'm your RAG-powered assistant ready to help with account management, security settings, billing, and more." :>
     <<"G", "o", "o", "d", " ", "e", "v", "e", "n", "i", "n", "g", "!", " ", "H", "o", "w", " ", "c", "a", "n", " ", "I", " ", "a", "s", "s", "i", "s", "t", " ", "y", "o", "u", " ", "t", "o", "d", "a", "y", "?", " ", "I", "'", "m", " ", "y", "o", "u", "r", " ", "R", "A", "G", "-", "p", "o", "w", "e", "r", "e", "d", " ", "a", "s", "s", "i", "s", "t", "a", "n", "t", " ", "r", "e", "a", "d", "y", " ", "t", "o", " ", "h", "e", "l", "p", " ", "w", "i", "t", "h", " ", "a", "c", "c", "o", "u", "n", "t", " ", "m", "a", "n", "a", "g", "e", "m", "e", "n", "t", ",", " ", "s", "e", "c", "u", "r", "i", "t", "y", " ", "s", "e", "t", "t", "i", "n", "g", "s", ",", " ", "b", "i", "l", "l", "i", "n", "g", ",", " ", "a", "n", "d", " ", "m", "o", "r", "e", ".">>) @@
  ("You're welcome! Is there anything else I can help you with?" :>
     <<"Y", "o", "u", "'", "r", "e", " ", "w", "e", "l", "c", "o", "m", "e", "!", " ", "I", "s", " ", "t", "h", "e", "r", "e", " ", "a", "n", "y", "t", "h", "i", "n", "g", " ", "e", "l", "s", "e", " ", "I", " ", "c", "a", "n", " ", "h", "e", "l", "p", " ", "y", "o", "u", " ", "w", "i", "t", "h", "?">>) @@
  ("You're welcome! Is there anything else I can assist you with?" :>
     <<"Y", "o", "u", "'", "r", "e", " ", "w", "e", "l", "c", "o", "m", "e", "!", " ", "I", "s", " ", "t", "h", "e", "r", "e", " ", "a", "n", "y", "t", "h", "i", "n", "g", " ", "e", "l", "s", "e", " ", "I", " ", "c", "a", "n", " ", "a", "s", "s", "i", "s", "t", " ", "y", "o", "u", " ", "w", "i", "t", "h", "?">>) @@
  ("Goodbye! Feel free to come back anytime if you need help." :>
     <<"G", "o", "o", "d", "b", "y", "e", "!", " ", "F", "e", "e", "l", " ", "f", "r", "e", "e", " ", "t", "o", " ", "c", "o", "m", "e", " ", "b", "a", "c", "k", " ", "a", "n", "y", "t", "i", "m", "e", " ", "i", "f", " ", "y", "o", "u", " ", "n", "e", "e", "d", " ", "h", "e", "l", "p", ".">>) @@
  ("Goodbye! Have a great day and come back anytime you need assistance." :>
     <<"G", "o", "o", "d", "b", "y", "e", "!", " ", "H", "a", "v", "e", " ", "a", " ", "g", "r", "e", "a", "t", " ", "d", "a", "y", " ", "a", "n", "d", " ", "c", "o", "m", "e", " ", "b", "a", "c", "k", " ", "a", "n", "y", "t", "i", "m", "e", " ", "y", "o", "u", " ", "n", "e", "e", "d", " ", "a", "s", "s", "i", "s", "t", "a", "n", "c", "e", ".">>) @@
  ("I can help you with: account management, security settings, billing inquiries, mobile app features, troubleshooting, and API integration. What would you like to know?" :>
     <<"I", " ", "c", "a", "n", " ", "h", "e", "l", "p", " ", "y", "o", "u", " ", "w", "i", "t", "h", ":", " ", "a", "c", "c", "o", "u", "n", "t", " ", "m", "a", "n", "a", "g", "e", "m", "e", "n", "t", ",", " ", "s", "e", "c", "u", "r", "i", "t", "y", " ", "s", "e", "t", "t", "i", "n", "g", "s", ",", " ", "b", "i", "l", "l", "i", "n", "g", " ", "i", "n", "q", "u", "i", "r", "i", "e", "s", ",", " ", "m", "o", "b", "i", "l", "e", " ", "a", "p", "p", " ", "f", "e", "a", "t", "u", "r", "e", "s", ",", " ", "t", "r", "o", "u", "b", "l", "e", "s", "h", "o", "o", "t", "i", "n", "g", ",", " ", "a", "n", "d", " ", "A", "P", "I", " ", "i", "n", "t", "e", "g", "r", "a", "t", "i", "o", "n", ".", " ", "W", "h", "a", "t", " ", "w", "o", "u", "l", "d", " ", "y", "o", "u", " ", "l", "i", "k", "e", " ", "t", "o", " ", "k", "n", "o", "w", "?">>) @@
  ("You can reset your password from Settings > Security. Click on \"Change Password\" and enter your current password followed by the new password." :>
     <<"Y", "o", "u", " ", "c", "a", "n", " ", "r", "e", "s", "e", "t", " ", "y", "o", "u", "r", " ", "p", "a", "s", "s", "w", "o", "r", "d", " ", "f", "r", "o", "m", " ", "S", "e", "t", "t", "i", "n", "g", "s", " ", ">", " ", "S", "e", "c", "u", "r", "i", "t", "y", ".", " ", "C", "l", "i", "c", "k", " ", "o", "n", " ", "\"", "C", "h", "a", "n", "g", "e", " ", "P", "a", "s", "s", "w", "o", "r", "d", "\"", " ", "a", "n", "d", " ", "e", "n", "t", "e", "r", " ", "y", "o", "u", "r", " ", "c", "u", "r", "r", "e", "n", "t", " ", "p", "a", "s", "s", "w", "o", "r", "d", " ", "f", "o", "l", "l", "o", "w", "e", "d", " ", "b", "y", " ", "t", "h", "e", " ", "n", "e", "w", " ", "p", "a", "s", "s", "w", "o", "r", "d", ".">>) @@
  ("To set up a new account, click on the \"Sign Up\" button on the homepage. Enter your email address, create a strong password, and provide your full name." :>
     <<"T", "o", " ", "s", "e", "t", " ", "u", "p", " ", "a", " ", "n", "e", "w", " ", "a", "c", "c", "o", "u", "n", "t", ",", " ", "c", "l", "i", "c", "k", " ", "o", "n", " ", "t", "h", "e", " ", "\"", "S", "i", "g", "n", " ", "U", "p", "\"", " ", "b", "u", "t", "t", "o", "n", " ", "o", "n", " ", "t", "h", "e", " ", "h", "o", "m", "e", "p", "a", "g", "e", ".", " ", "E", "n", "t", "e", "r", " ", "y", "o", "u", "r", " ", "e", "m", "a", "i", "l", " ", "a", "d", "d", "r", "e", "s", "s", ",", " ", "c", "r", "e", "a", "t", "e", " ", "a", " ", "s", "t", "r", "o", "n", "g", " ", "p", "a", "s", "s", "w", "o", "r", "d", ",", " ", "a", "n", "d", " ", "p", "r", "o", "v", "i", "d", "e", " ", "y", "o", "u", "r", " ", "f", "u", "l", "l", " ", "n", "a", "m", "e", ".">>) @@
  ("Two-Factor Authentication (2FA) adds an extra layer of security. Enable 2FA from Settings > Security > Two-Factor Authentication." :>
     <<"T", "w", "o", "-", "F", "a", "c", "t", "o", "r", " ", "A", "u", "t", "h", "e", "n", "t", "i", "c", "a", "t", "i", "o", "n", " ", "(", "2", "F", "A", ")", " ", "a", "d", "d", "s", " ", "a", "n", " ", "e", "x", "t", "r", "a", " ", "l", "a", "y", "e", "r", " ", "o", "f", " ", "s", "e", "c", "u", "r", "i", "t", "y", ".", " ", "E", "n", "a", "b", "l", "e", " ", "2", "F", "A", " ", "f", "r", "o", "m", " ", "S", "e", "t", "t", "i", "n", "g", "s", " ", ">", " ", "S", "e", "c", "u", "r", "i", "t", "y", " ", ">", " ", "T", "w", "o", "-", "F", "a", "c", "t", "o", "r", " ", "A", "u", "t", "h", "e", "n", "t", "i", "c", "a", "t", "i", "o", "n", ".">>) @@
  ("We accept various payment methods including credit cards, debit cards, and PayPal. You can update your payment method from Settings > Billing." :>
     <<"W", "e", " ", "a", "c", "c", "e", "p", "t", " ", "v", "a", "r", "i", "o", "u", "s", " ", "p", "a", "y", "m", "e", "n", "t", " ", "m", "e", "t", "h", "o", "d", "s", " ", "i", "n", "c", "l", "u", "d", "i", "n", "g", " ", "c", "r", "e", "d", "i", "t", " ", "c", "a", "r", "d", "s", ",", " ", "d", "e", "b", "i", "t", " ", "c", "a", "r", "d", "s", ",", " ", "a", "n", "d", " ", "P", "a", "y", "P", "a", "l", ".", " ", "Y", "o", "u", " ", "c", "a", "n", " ", "u", "p", "d", "a", "t", "e", " ", "y", "o", "u", "r", " ", "p", "a", "y", "m", "e", "n", "t", " ", "m", "e", "t", "h", "o", "d", " ", "f", "r", "o", "m", " ", "S", "e", "t", "t", "i", "n", "g", "s", " ", ">", " ", "B", "i", "l", "l", "i", "n", "g", ".">>) @@
  ("Our mobile app is available for both iOS and Android devices. Download it from the App Store or Google Play Store." :>
     <<"O", "u", "r", " ", "m", "o", "b", "i", "l", "e", " ", "a", "p", "p", " ", "i", "s", " ", "a", "v", "a", "i", "l", "a", "b", "l", "e", " ", "f", "o", "r", " ", "b", "o", "t", "h", " ", "i", "O", "S", " ", "a", "n", "d", " ", "A", "n", "d", "r", "o", "i", "d", " ", "d", "e", "v", "i", "c", "e", "s", ".", " ", "D", "o", "w", "n", "l", "o", "a", "d", " ", "i", "t", " ", "f", "r", "o", "m", " ", "t", "h", "e", " ", "A", "p", "p", " ", "S", "t", "o", "r", "e", " ", "o", "r", " ", "G", "o", "o", "g", "l", "e", " ", "P", "l", "a", "y", " ", "S", "t", "o", "r", "e", ".">>) @@
  ("If you're having trouble logging in, first check your internet connection, clear your browser cache and cookies, then try again." :>
     <<"I", "f", " ", "y", "o", "u", "'", "r", "e", " ", "h", "a", "v", "i", "n", "g", " ", "t", "r", "o", "u", "b", "l", "e", " ", "l", "o", "g", "g", "i", "n", "g", " ", "i", "n", ",", " ", "f", "i", "r", "s", "t", " ", "c", "h", "e", "c", "k", " ", "y", "o", "u", "r", " ", "i", "n", "t", "e", "r", "n", "e", "t", " ", "c", "o", "n", "n", "e", "c", "t", "i", "o", "n", ",", " ", "c", "l", "e", "a", "r", " ", "y", "o", "u", "r", " ", "b", "r", "o", "w", "s", "e", "r", " ", "c", "a", "c", "h", "e", " ", "a", "n", "d", " ", "c", "o", "o", "k", "i", "e", "s", ",", " ", "t", "h", "e", "n", " ", "t", "r", "y", " ", "a", "g", "a", "i", "n", ".">>) @@
  ("Our API allows developers to integrate our services. Visit the Developer Dashboard to generate an API key and access comprehensive documentation." :>
     <<"O", "u", "r", " ", "A", "P", "I", " ", "a", "l", "l", "o", "w", "s", " ", "d", "e", "v", "e", "l", "o", "p", "e", "r", "s", " ", "t", "o", " ", "i", "n", "t", "e", "g", "r", "a", "t", "e", " ", "o", "u", "r", " ", "s", "e", "r", "v", "i", "c", "e", "s", ".", " ", "V", "i", "s", "i", "t", " ", "t", "h", "e", " ", "D", "e", "v", "e", "l", "o", "p", "e", "r", " ", "D", "a", "s", "h", "b", "o", "a", "r", "d", " ", "t", "o", " ", "g", "e", "n", "e", "r", "a", "t", "e", " ", "a", "n", " ", "A", "P", "I", " ", "k", "e", "y", " ", "a", "n", "d", " ", "a", "c", "c", "e", "s", "s", " ", "c", "o", "m", "p", "r", "e", "h", "e", "n", "s", "i", "v", "e", " ", "d", "o", "c", "u", "m", "e", "n", "t", "a", "t", "i", "o", "n", ".">>) @@
  ("I can help you with account management, security settings, billing inquiries, mobile app features, troubleshooting, and API integration. Please ask me about any of these topics or try rephrasing your question." :>
     <<"I", " ", "c", "a", "n", " ", "h", "e", "l", "p", " ", "y", "o", "u", " ", "w", "i", "t", "h", " ", "a", "c", "c", "o", "u", "n", "t", " ", "m", "a", "n", "a", "g", "e", "m", "e", "n", "t", ",", " ", "s", "e", "c", "u", "r", "i", "t", "y", " ", "s", "e", "t", "t", "i", "n", "g", "s", ",", " ", "b", "i", "l", "l", "i", "n", "g", " ", "i", "n", "q", "u", "i", "r", "i", "e", "s", ",", " ", "m", "o", "b", "i", "l", "e", " ", "a", "p", "p", " ", "f", "e", "a", "t", "u", "r", "e", "s", ",", " ", "t", "r", "o", "u", "b", "l", "e", "s", "h", "o", "o", "t", "i", "n", "g", ",", " ", "a", "n", "d", " ", "A", "P", "I", " ", "i", "n", "t", "e", "g", "r", "a", "t", "i", "o", "n", ".", " ", "P", "l", "e", "a", "s", "e", " ", "a", "s", "k", " ", "m", "e", " ", "a", "b", "o", "u", "t", " ", "a", "n", "y", " ", "o", "f", " ", "t", "h", "e", "s", "e", " ", "t", "o", "p", "i", "c", "s", " ", "o", "r", " ", "t", "r", "y", " ", "r", "e", "p", "h", "r", "a", "s", "i", "n", "g", " ", "y", "o", "u", "r", " ", "q", "u", "e", "s", "t", "i", "o", "n", ".">>) @@
  ("User" :>
     <<"U", "s", "e", "r">>) @@
  ("Assistant" :>
     <<"A", "s", "s", "i", "s", "t", "a", "n", "t">>) @@
  (": " :>
     <<":", " ">>) @@
  ("\n\n" :>
     <<"\n", "\n">>)

Upper ==
  ("A" :> "a") @@ ("B" :> "b") @@ ("C" :> "c") @@ ("D" :> "d") @@ ("E" :> "e") @@ ("F" :> "f") @@ ("G" :> "g") @@ ("H" :> "h") @@ ("I" :> "i") @@ ("J" :> "j") @@ ("K" :> "k") @@ ("L" :> "l") @@ ("M" :> "m") @@ ("N" :> "n") @@ ("O" :> "o") @@ ("P" :> "p") @@ ("Q" :> "q") @@ ("R" :> "r") @@ ("S" :> "s") @@ ("T" :> "t") @@ ("U" :> "u") @@ ("V" :> "v") @@ ("W" :> "w") @@ ("X" :> "x") @@ ("Y" :> "y") @@ ("Z" :> "z")

\* A text is a sequence of pieces: a piece is one character, or a whole text
\* of Expand kept in one piece.  Chars gives the characters of a text.
RECURSIVE Chars(_)
Chars(text) ==
  IF text = <<>> THEN <<>>
  ELSE (IF Head(text) \in DOMAIN Expand THEN Expand[Head(text)] ELSE <<Head(text)>>)
       \o Chars(Tail(text))

toLowerCase(str) == [i \in 1..Len(str) |-> IF str[i] \in DOMAIN Upper THEN Upper[str[i]] ELSE str[i]]

\* the white space String.prototype.trim removes, as far as the texts here have any
WhiteSpace == {" ", "\n", "\t"}

RECURSIVE trimStart(_)
trimStart(str) == IF str # <<>> /\ Head(str) \in WhiteSpace THEN trimStart(Tail(str)) ELSE str
RECURSIVE trimEnd(_)
trimEnd(str) ==
  IF str # <<>> /\ str[Len(str)] \in WhiteSpace
  THEN trimEnd(SubSeq(str, 1, Len(str) - 1)) ELSE str
trim(str) == trimEnd(trimStart(str))

includes(str, key) ==
  \E i \in 0..(Len(str) - Len(key)) : SubSeq(str, i + 1, i + Len(key)) = key

\* the properties a plain object inherits from Object.prototype whose names
\* a lower-case string can equal, with what String() makes of their values;
\* both values are truthy and neither is a string
InheritedProperties ==
  << [key |-> <<"c", "o", "n", "s", "t", "r", "u", "c", "t", "o", "r">>,
      value |-> "function Object() { [native code] }"],
     [key |-> <<"_", "_", "p", "r", "o", "t", "o", "_", "_">>,
      value |-> "[object Object]"] >>

\* responses[lowerPrompt] is a property lookup: it finds the keys of the
\* table and the inherited properties
generateMockResponse(prompt) ==
  LET lowerPrompt == trim(toLowerCase(Chars(prompt)))
      exact == {i \in 1..Len(MockResponses) : MockResponses[i].key = lowerPrompt}
      inherited == {i \in 1..Len(InheritedProperties) :
                      InheritedProperties[i].key = lowerPrompt}
      partial == {i \in 1..Len(MockResponses) : includes(lowerPrompt, MockResponses[i].key)}
      first(S) == CHOOSE i \in S : \A j \in S : i <= j
  IN IF exact # {} THEN <<MockResponses[first(exact)].response>>
     ELSE IF inherited # {} THEN <<InheritedProperties[first(inherited)].value>>
     ELSE IF partial # {} THEN <<MockResponses[first(partial)].response>>
     ELSE <<MockResponses[Len(MockResponses)].response>>

Supported == {"openai", "gemini", "claude", "mistral"}

\* mutant of getCurrentApiKey: every provider counts as configured
getCurrentApiKey_always(p, cred) == TRUE

\* truthiness of getCurrentApiKey()
getCurrentApiKey(p, cred) ==
  CASE p \in Supported -> cred
    [] p = "mock" -> TRUE
    [] OTHER -> FALSE

\* A token count the response does not carry (undefined)
Absent == -1

\* x || 0 for a count that may be undefined
OrZero(x) == IF x = Absent THEN 0 ELSE x

\* data: [shape, content, total, input, output].  shape = FALSE stands for a
\* body without the array the parser indexes (a TypeError).
parseResponse(p, data) ==
  CASE p \in {"openai", "mistral", "gemini"} ->
         [content |-> data.content, tokensUsed |-> OrZero(data.total)]
    [] p = "claude" ->
         [content |-> data.content,
          tokensUsed |-> IF data.input = Absent \/ data.output = Absent
                         THEN 0   \* undefined + x is NaN, and NaN || 0 is 0
                         ELSE data.input + data.output]
    [] OTHER -> [content |-> <<"Response parsing failed">>, tokensUsed |-> 0]

NoResult == [provider |-> "", content |-> <<>>, tokensUsed |-> 0, fallback |-> FALSE, error |-> "", cause |-> ""]

IdleCall ==
  [pc |-> "idle", withFallback |-> FALSE, prompt |-> <<>>, attempt |-> 0, statusOk |-> TRUE,
   sent |-> 0, failed |-> 0, delays |-> <<>>, lastError |-> "", result |-> NoResult]

\* L is [k, totalTokensUsed, requestCount]: one invocation and the usage counters

generateFallbackResponse(error) ==
  [NoResult EXCEPT !.content = <<FallbackContent>>, !.provider = "fallback", !.fallback = TRUE]

\* the promise callLLM returned is rejected; callLLMWithFallback's catch turns
\* the rejection into the fallback response
rejectCall(L, error, cause) ==
  IF L.k.withFallback
  THEN [L EXCEPT !.k.pc = "resolved", !.k.result = generateFallbackResponse(error)]
  ELSE [L EXCEPT !.k.pc = "rejected",
                 !.k.result = [NoResult EXCEPT !.error = error, !.cause = cause]]

\* tryCall's then handler
resolveCall(L, response) ==
  [L EXCEPT !.requestCount = L.requestCount + 1,
            !.k.pc = "resolved",
            !.k.result = response]

\* mutant of makeAPICall: the mock provider is sent to the network like the others
makeAPICall_noMock(L) ==
  [L EXCEPT !.k.pc = "inflight", !.k.sent = L.k.sent + 1, !.k.statusOk = TRUE]

\* makeAPICall up to the point where it returns its promise
makeAPICall(L) ==
  IF provider = "mock"
  THEN [L EXCEPT !.k.pc = "mockdelay"]
  ELSE [L EXCEPT !.k.pc = "inflight", !.k.sent = L.k.sent + 1, !.k.statusOk = TRUE]

\* mutant of onAttemptFailed: one attempt more before giving up
onAttemptFailed_extra(L, error) ==
  LET L1 == [L EXCEPT !.k.failed = L.k.failed + 1, !.k.lastError = error] IN
  IF L1.k.attempt > MaxRetries
  THEN rejectCall(L1, "ExhaustedRetries", error)
  ELSE [L1 EXCEPT !.k.pc = "backoff",
                  !.k.delays = Append(L1.k.delays, RetryDelay * 2 ^ (L1.k.attempt - 1))]

\* mutant of onAttemptFailed: the retry is sent at once, without the timer
onAttemptFailed_noBackoff(L, error) ==
  LET L1 == [L EXCEPT !.k.failed = L.k.failed + 1, !.k.lastError = error] IN
  IF L1.k.attempt >= MaxRetries
  THEN rejectCall(L1, "ExhaustedRetries", error)
  ELSE makeAPICall([L1 EXCEPT !.k.attempt = L1.k.attempt + 1])

\* tryCall's catch handler
onAttemptFailed(L, error) ==
  LET L1 == [L EXCEPT !.k.failed = L.k.failed + 1, !.k.lastError = error] IN
  IF L1.k.attempt >= MaxRetries
  THEN rejectCall(L1, "ExhaustedRetries", error)
  ELSE [L1 EXCEPT !.k.pc = "backoff",
                  !.k.delays = Append(L1.k.delays, RetryDelay * 2 ^ (L1.k.attempt - 1))]

\* the timer callback of tryCall's catch handler
onRetryTimer(L) == makeAPICall([L EXCEPT !.k.attempt = L.k.attempt + 1])

\* ok = FALSE stands for the exception callLLM throws synchronously
callLLM(L, prompt) ==
  IF ~getCurrentApiKey(provider, credential)
  THEN [L EXCEPT !.k.pc = "threw",
                 !.k.result = [NoResult EXCEPT !.error = "MissingCredential"]]
  ELSE makeAPICall([L EXCEPT !.k.attempt = 1, !.k.prompt = prompt])

callLLMWithFallback(L, prompt) == callLLM([L EXCEPT !.k.withFallback = TRUE], prompt)

\* the then handler of makeAPICall's fetch chain on a parsed body
onData(L, data) ==
  IF ~L.k.statusOk THEN onAttemptFailed(L, "http")
  ELSE IF ~data.shape THEN onAttemptFailed(L, "parse")
  ELSE LET parsed == parseResponse(provider, data)
           L1 == [L EXCEPT !.totalTokensUsed = L.totalTokensUsed + parsed.tokensUsed,
                           !.requestCount = L.requestCount + 1]
       IN resolveCall(L1, [NoResult EXCEPT !.content = parsed.content,
                                           !.tokensUsed = parsed.tokensUsed,
                                           !.provider = provider])

----------------------------------------------------------------------------
(* Actions of the LLM Gateway: the invocation by a caller and the events    *)
(* its promise chain waits for.                                             *)

Prompts == {<<"A", "P", "I", " ">>}

Datas ==
  {[shape |-> TRUE, content |-> <<ProviderAnswer>>, total |-> 5, input |-> 3, output |-> 2],
   [shape |-> TRUE, content |-> <<ProviderAnswer>>, total |-> Absent, input |-> 3, output |-> Absent],
   [shape |-> FALSE, content |-> <<>>, total |-> Absent, input |-> Absent, output |-> Absent]}

Settled == {"resolved", "rejected", "threw"}

LW(c) == [k |-> calls[c], totalTokensUsed |-> totalTokensUsed, requestCount |-> requestCount]

SetLLM(c, L) ==
  /\ calls' = [calls EXCEPT ![c] = L.k]
  /\ totalTokensUsed' = L.totalTokensUsed
  /\ requestCount' = L.requestCount

StartCall(c, prompt, withFallback) ==
  /\ calls[c].pc = "idle"
  /\ callsMade < MaxCalls
  /\ callsMade' = callsMade + 1
  /\ SetLLM(c, IF withFallback THEN callLLMWithFallback(LW(c), prompt) ELSE callLLM(LW(c), prompt))
  /\ UNCHANGED <<provider, credential>>
  /\ UNCHANGED <<storeVars, chatVars, ragVars, fnVars>>

\* the 500 ms timer of the mock branch of makeAPICall
MockTimerFires(c) ==
  /\ calls[c].pc = "mockdelay"
  /\ SetLLM(c, resolveCall(LW(c), [NoResult EXCEPT
                                     !.content = generateMockResponse(calls[c].prompt),
                                     !.provider = "mock"]))
  /\ UNCHANGED <<provider, credential, callsMade>>
  /\ UNCHANGED <<storeVars, chatVars, ragVars, fnVars>>

\* fetch resolves with the response's status line; the timeout timer is cleared
ResponseHeaders(c, ok) ==
  /\ calls[c].pc = "inflight"
  /\ calls' = [calls EXCEPT ![c].pc = "body", ![c].statusOk = ok]
  /\ UNCHANGED <<provider, credential, totalTokensUsed, requestCount, callsMade>>
  /\ UNCHANGED <<storeVars, chatVars, ragVars, fnVars>>

\* response.json() resolves
BodyArrives(c, data) ==
  /\ calls[c].pc = "body"
  /\ SetLLM(c, onData(LW(c), data))
  /\ UNCHANGED <<provider, credential, callsMade>>
  /\ UNCHANGED <<storeVars, chatVars, ragVars, fnVars>>

\* response.json() rejects
BodyFails(c) ==
  /\ calls[c].pc = "body"
  /\ SetLLM(c, onAttemptFailed(LW(c), "parse"))
  /\ UNCHANGED <<provider, credential, callsMade>>
  /\ UNCHANGED <<storeVars, chatVars, ragVars, fnVars>>

\* fetch rejects with a network error
FetchFails(c) ==
  /\ calls[c].pc = "inflight"
  /\ SetLLM(c, onAttemptFailed(LW(c), "network"))
  /\ UNCHANGED <<provider, credential, callsMade>>
  /\ UNCHANGED <<storeVars, chatVars, ragVars, fnVars>>

\* the timeout timer aborts the pending fetch
RequestTimeout(c) ==
  /\ calls[c].pc = "inflight"
  /\ SetLLM(c, onAttemptFailed(LW(c), "timeout"))
  /\ UNCHANGED <<provider, credential, callsMade>>
  /\ UNCHANGED <<storeVars, chatVars, ragVars, fnVars>>

RetryTimerFires(c) ==
  /\ calls[c].pc = "backoff"
  /\ SetLLM(c, onRetryTimer(LW(c)))
  /\ UNCHANGED <<provider, credential, callsMade>>
  /\ UNCHANGED <<storeVars, chatVars, ragVars, fnVars>>

\* the caller has taken the outcome
Finish(c) ==
  /\ calls[c].pc \in Settled
  /\ calls' = [calls EXCEPT ![c] = IdleCall]
  /\ UNCHANGED <<provider, credential, totalTokensUsed, requestCount, callsMade>>
  /\ UNCHANGED <<storeVars, chatVars, ragVars, fnVars>>

\* resetUsageStats
ResetUsageStats ==
  /\ totalTokensUsed' = 0
  /\ requestCount' = 0
  /\ UNCHANGED <<provider, credential, calls, callsMade>>
  /\ UNCHANGED <<storeVars, chatVars, ragVars, fnVars>>

\* what getUsageStats returns of the counters; Math.round of a quotient of
\* non-negative integers rounds the half up
getUsageStats ==
  [totalTokensUsed |-> totalTokensUsed,
   requestCount |-> requestCount,
   averageTokensPerRequest |->
     IF requestCount > 0 THEN (2 * totalTokensUsed + requestCount) \div (2 * requestCount) ELSE 0]

\* getUsageStats builds its result from the counters and assigns nothing
GetUsageStats ==
  /\ getUsageStats.requestCount >= 0
  /\ UNCHANGED vars

InitLLMVars ==
  /\ totalTokensUsed = 0
  /\ requestCount = 0
  /\ calls = [c \in Callers |-> IdleCall]
  /\ callsMade = 0

InitLLM ==
  /\ InitStoreVars
  /\ provider \in {"gemini", "claude", "mock"}
  /\ credential \in BOOLEAN
  /\ InitLLMVars
  /\ initialized = TRUE
  /\ reqs = [c \in Callers |-> [pc |-> "idle"]]
  /\ InitRagVars
  /\ fn = NoFn

NextLLM ==
  \/ \E c \in Callers, p \in Prompts, f \in BOOLEAN : StartCall(c, p, f)
  \/ \E c \in Callers : MockTimerFires(c)
  \/ \E c \in Callers, ok \in BOOLEAN : ResponseHeaders(c, ok)
  \/ \E c \in Callers, d \in Datas : BodyArrives(c, d)
  \/ \E c \in Callers : BodyFails(c)
  \/ \E c \in Callers : FetchFails(c)
  \/ \E c \in Callers : RequestTimeout(c)
  \/ \E c \in Callers : RetryTimerFires(c)
  \/ \E c \in Callers : Finish(c)
  \/ ResetUsageStats
  \/ GetUsageStats

SpecLLM == InitLLM /\ [][NextLLM]_vars

\* What the event loop guarantees of a call on its own: a timer that is armed
\* fires (the mock delay, the request timeout while the fetch is pending, the
\* backoff delay).  When the provider answers, and whether the body of an
\* answer ever ends, is the provider's doing and is not assumed.
TimersFire ==
  \A c \in Callers :
    /\ WF_vars(MockTimerFires(c))
    /\ WF_vars(RequestTimeout(c))
    /\ WF_vars(RetryTimerFires(c))

SpecLLMLive == SpecLLM /\ TimersFire

----------------------------------------------------------------------------
(* Retrieval and prompt assembly (ragPipeline.js).  generateQueryEmbedding  *)
(* draws the embedding at random, so the chunks similaritySearch returns    *)
(* are an input of the operators below.                                     *)

\* similarities are kept in tenths
Chunk1 ==
  [id |-> "doc1_chunk_0", documentTitle |-> <<"F", "A", "Q">>,
   content |-> <<"S", "e", "e", " ", "d", "o", "c", "s", ".">>, similarity |-> 9]

\* results of similaritySearch: nothing above the threshold, or one chunk
Searches == {<<>>, <<Chunk1>>}

\* the decimal digits of index + 1, for the indices a result list can have
Ordinal == <<"1", "2", "3", "4">>

RECURSIVE Flatten(_)
Flatten(texts) == IF texts = <<>> THEN <<>> ELSE Head(texts) \o Flatten(Tail(texts))

\* mutant of retrieveContext: no mock response is looked up
retrieveContext_noMock(query, relevantChunks) ==
  IF Len(relevantChunks) = 0
  THEN [hasContext |-> FALSE, context |-> <<>>, similarityScores |-> <<>>,
        mockResponse |-> <<>>]
  ELSE [hasContext |-> TRUE,
        context |-> [i \in 1..Len(relevantChunks) |->
                       [id |-> relevantChunks[i].id,
                        title |-> relevantChunks[i].documentTitle,
                        content |-> relevantChunks[i].content,
                        similarity |-> relevantChunks[i].similarity,
                        order |-> i]],
        similarityScores |-> [i \in 1..Len(relevantChunks) |-> relevantChunks[i].similarity],
        mockResponse |-> <<>>]

\* mutant of retrieveContext: order counts from 0, as the map index does
retrieveContext_zeroBased(query, relevantChunks) ==
  IF Len(relevantChunks) = 0
  THEN IF provider = "mock"
       THEN [hasContext |-> FALSE, context |-> <<>>, similarityScores |-> <<>>,
             mockResponse |-> generateMockResponse(query)]
       ELSE [hasContext |-> FALSE, context |-> <<>>, similarityScores |-> <<>>,
             mockResponse |-> <<>>]
  ELSE [hasContext |-> TRUE,
        context |-> [i \in 1..Len(relevantChunks) |->
                       [id |-> relevantChunks[i].id,
                        title |-> relevantChunks[i].documentTitle,
                        content |-> relevantChunks[i].content,
                        similarity |-> relevantChunks[i].similarity,
                        order |-> i - 1]],
        similarityScores |-> [i \in 1..Len(relevantChunks) |-> relevantChunks[i].similarity],
        mockResponse |-> <<>>]

\* mockResponse = <<>> stands for a result without the mockResponse property
retrieveContext(query, relevantChunks) ==
  IF Len(relevantChunks) = 0
  THEN IF provider = "mock"
       THEN [hasContext |-> FALSE, context |-> <<>>, similarityScores |-> <<>>,
             mockResponse |-> generateMockResponse(query)]
       ELSE [hasContext |-> FALSE, context |-> <<>>, similarityScores |-> <<>>,
             mockResponse |-> <<>>]
  ELSE [hasContext |-> TRUE,
        context |-> [i \in 1..Len(relevantChunks) |->
                       [id |-> relevantChunks[i].id,
                        title |-> relevantChunks[i].documentTitle,
                        content |-> relevantChunks[i].content,
                        similarity |-> relevantChunks[i].similarity,
                        order |-> i]],
        similarityScores |-> [i \in 1..Len(relevantChunks) |-> relevantChunks[i].similarity],
        mockResponse |-> <<>>]

\* mutant of constructPrompt: the history is cut to its first six entries
constructPrompt_oldestSix(userQuery, context, conversationHistory) ==
  LET recentHistory == SubSeq(conversationHistory, 1,
                             IF Len(conversationHistory) < 6
                             THEN Len(conversationHistory) ELSE 6)
      line(msg) == <<IF msg.role = "user" THEN "User" ELSE "Assistant", ": ">>
                   \o msg.content \o <<"\n">>
      block(i) == <<DocumentOpen, Ordinal[i], ": ">> \o context[i].title \o <<DocumentClose>>
                  \o context[i].content \o <<"\n\n">>
  IN <<Instruction1, Instruction2, Instruction3>>
     \o (IF Len(conversationHistory) > 0
         THEN <<HistoryHeader>>
              \o Flatten([i \in 1..Len(recentHistory) |-> line(recentHistory[i])])
              \o <<"\n">>
         ELSE <<>>)
     \o (IF Len(context) > 0
         THEN <<ContextHeader>>
              \o Flatten([i \in 1..Len(context) |-> block(i)])
              \o <<ContextFooter>>
         ELSE <<>>)
     \o <<QuestionHeader>> \o userQuery \o <<ResponseHeader>>

constructPrompt(userQuery, context, conversationHistory) ==
  LET recentHistory == LastN(conversationHistory, 6)
      line(msg) == <<IF msg.role = "user" THEN "User" ELSE "Assistant", ": ">>
                   \o msg.content \o <<"\n">>
      block(i) == <<DocumentOpen, Ordinal[i], ": ">> \o context[i].title \o <<DocumentClose>>
                  \o context[i].content \o <<"\n\n">>
  IN <<Instruction1, Instruction2, Instruction3>>
     \o (IF Len(conversationHistory) > 0
         THEN <<HistoryHeader>>
              \o Flatten([i \in 1..Len(recentHistory) |-> line(recentHistory[i])])
              \o <<"\n">>
         ELSE <<>>)
     \o (IF Len(context) > 0
         THEN <<ContextHeader>>
              \o Flatten([i \in 1..Len(context) |-> block(i)])
              \o <<ContextFooter>>
         ELSE <<>>)
     \o <<QuestionHeader>> \o userQuery \o <<ResponseHeader>>

\* processQuery from the result of its call of retrieveContext on
processQueryFrom(userQuery, conversationHistory, retrievalResult) ==
  LET prompt == IF retrievalResult.hasContext
                THEN constructPrompt(userQuery, retrievalResult.context, conversationHistory)
                ELSE IF retrievalResult.mockResponse # <<>>
                THEN retrievalResult.mockResponse
                ELSE <<InsufficientOpen>> \o userQuery \o <<InsufficientClose>>
  IN [hasContext |-> retrievalResult.hasContext,
      prompt |-> prompt,
      retrievedChunks |-> Len(retrievalResult.context),
      mockResponse |-> retrievalResult.mockResponse]

processQuery(userQuery, conversationHistory, relevantChunks) ==
  processQueryFrom(userQuery, conversationHistory, retrieveContext(userQuery, relevantChunks))

----------------------------------------------------------------------------
(* The chat route (routes/chat.js) *)

MaxMessageLength == 2000

Query == <<"A", "P", "I", " ">>

\* request bodies: hasMessage = FALSE stands for a body whose message is
\* missing or not a string
Bodies ==
  [hasMessage : {TRUE}, message : {Query}, sessionId : ClientIds]
  \cup {[hasMessage |-> FALSE, message |-> <<>>, sessionId |-> NoId],
        [hasMessage |-> TRUE, message |-> <<" ", " ">>, sessionId |-> NoId]}

validateRequest(body) ==
  IF ~body.hasMessage \/ body.message = <<>>
  THEN [isValid |-> FALSE, error |-> "Message is required and must be a string"]
  ELSE IF Len(trim(Chars(body.message))) = 0
  THEN [isValid |-> FALSE, error |-> "Message cannot be empty"]
  ELSE IF Len(Chars(body.message)) > MaxMessageLength
  THEN [isValid |-> FALSE, error |-> "Message is too long (max 2000 characters)"]
  ELSE [isValid |-> TRUE, error |-> ""]

\* what res has been sent: status 0 stands for no response yet
NoResponse ==
  [status |-> 0, reply |-> <<>>, sessionId |-> NoId, tokensUsed |-> 0,
   retrievedChunks |-> 0, hasContext |-> FALSE, error |-> ""]

sendSuccessResponse(chatResponse) ==
  [NoResponse EXCEPT !.status = 200, !.reply = chatResponse.reply,
                     !.sessionId = chatResponse.sessionId,
                     !.tokensUsed = chatResponse.tokensUsed,
                     !.retrievedChunks = chatResponse.retrievedChunks,
                     !.hasContext = chatResponse.hasContext]

sendErrorResponse(statusCode, message) ==
  [NoResponse EXCEPT !.status = statusCode, !.error = message]

\* A request: pc is "idle" before the handler runs, "awaitLLM" while the
\* promise of callLLMWithFallback is pending, "done" once a response is sent
\* and "lost" when its promise chain ended in an unhandled rejection.
\* activeSessionId, hasContext and retrievedChunks are the handler's locals;
\* retrieved, invoked and appended record what the handler has done.
IdleReq ==
  [pc |-> "idle", activeSessionId |-> NoId, retrieved |-> FALSE, hasContext |-> FALSE,
   retrievedChunks |-> 0, invoked |-> 0, appended |-> <<>>, res |-> NoResponse]

\* mutant of usesLLM: the gateway is called whatever retrieval found
usesLLM_always(ragResult) == TRUE

\* the branch of handleChatRequest on the result of processQuery
usesLLM(ragResult) == ragResult.hasContext

\* mutant of onLLMResponse: the assistant message is appended twice
onLLMResponse_twice(W, q, llmResponse, t) ==
  LET meta == [tokensUsed |-> llmResponse.tokensUsed, retrievedChunks |-> q.retrievedChunks]
      a == addMessage(W, q.activeSessionId, "assistant", llmResponse.content, meta, t)
      b == addMessage(a.w, q.activeSessionId, "assistant", llmResponse.content, meta, t)
  IN IF ~b.ok
     THEN [w |-> b.w, ok |-> FALSE, q |-> q]
     ELSE [w |-> b.w, ok |-> TRUE,
           q |-> [q EXCEPT !.pc = "done",
                           !.appended = Append(q.appended, llmResponse.content),
                           !.res = sendSuccessResponse(
                                     [reply |-> llmResponse.content,
                                      sessionId |-> q.activeSessionId,
                                      tokensUsed |-> llmResponse.tokensUsed,
                                      retrievedChunks |-> q.retrievedChunks,
                                      hasContext |-> q.hasContext])]]

\* the then handler of the promise of callLLMWithFallback; ok = FALSE stands
\* for the Error addMessage throws inside it
onLLMResponse(W, q, llmResponse, t) ==
  LET a == addMessage(W, q.activeSessionId, "assistant", llmResponse.content,
                      [tokensUsed |-> llmResponse.tokensUsed,
                       retrievedChunks |-> q.retrievedChunks], t)
  IN IF ~a.ok
     THEN [w |-> a.w, ok |-> FALSE, q |-> q]
     ELSE [w |-> a.w, ok |-> TRUE,
           q |-> [q EXCEPT !.pc = "done",
                           !.appended = Append(q.appended, llmResponse.content),
                           !.res = sendSuccessResponse(
                                     [reply |-> llmResponse.content,
                                      sessionId |-> q.activeSessionId,
                                      tokensUsed |-> llmResponse.tokensUsed,
                                      retrievedChunks |-> q.retrievedChunks,
                                      hasContext |-> q.hasContext])]]

\* the catch handler chained after it; when its own addMessage throws, the
\* chain ends in an unhandled rejection and no response is sent
onLLMError(W, q, t) ==
  LET fallbackResponse == <<ErrorReply>>
      a == addMessage(W, q.activeSessionId, "assistant", fallbackResponse, NoMeta, t)
  IN IF ~a.ok
     THEN [w |-> a.w, ok |-> FALSE, q |-> [q EXCEPT !.pc = "lost"]]
     ELSE [w |-> a.w, ok |-> TRUE,
           q |-> [q EXCEPT !.pc = "done",
                           !.appended = Append(q.appended, fallbackResponse),
                           !.res = sendSuccessResponse(
                                     [reply |-> fallbackResponse,
                                      sessionId |-> q.activeSessionId,
                                      tokensUsed |-> 0,
                                      retrievedChunks |-> q.retrievedChunks,
                                      hasContext |-> q.hasContext])]]

\* the else branch of handleChatRequest: the reply is taken from ragResult
replyWithoutLLM(W, q, ragResult, t) ==
  LET response == IF ragResult.mockResponse # <<>>
                  THEN ragResult.mockResponse
                  ELSE ragResult.prompt
      a == addMessage(W, q.activeSessionId, "assistant", response, NoMeta, t)
  IN IF ~a.ok
     THEN [w |-> a.w, ok |-> FALSE, q |-> q]
     ELSE [w |-> a.w, ok |-> TRUE,
           q |-> [q EXCEPT !.pc = "done",
                           !.appended = Append(q.appended, response),
                           !.res = sendSuccessResponse(
                                     [reply |-> response,
                                      sessionId |-> q.activeSessionId,
                                      tokensUsed |-> 0,
                                      retrievedChunks |-> q.retrievedChunks,
                                      hasContext |-> q.hasContext])]]

\* the outer catch of handleChatRequest
unexpectedError(q) ==
  [q EXCEPT !.pc = "done",
            !.res = sendErrorResponse(500,
                      "An unexpected error occurred while processing your request.")]

----------------------------------------------------------------------------
(* Similarity search and the configuration setters (ragPipeline.js).  The   *)
(* cosine of the random query embedding with each stored embedding is an   *)
(* input: scores[i] is the similarity computed for the i-th chunk.         *)

MaxStore == 3
Scores == {6, 7, 9}
ThresholdInputs == {-1, 0, 7, 9, 10, 11}
CapInputs == {0, 1, 2, 10, 11}
Stores == {SubSeq(StoreChunks, 1, n) : n \in 0..MaxStore}

Min(a, b) == IF a <= b THEN a ELSE b

\* vectorStore.map(chunk => ({...chunk, similarity}))
Similarities(store, scores) ==
  [i \in 1..Len(store) |-> store[i] @@ [similarity |-> scores[i]]]

\* mutant of SortBySimilarity: equal scores come out in reverse insertion order
RECURSIVE SortBySimilarity_tiesReversed(_)
SortBySimilarity_tiesReversed(list) ==
  IF list = <<>> THEN <<>>
  ELSE LET rest == SortBySimilarity_tiesReversed(Tail(list))
           x == Head(list)
           before == SelectSeq(rest, LAMBDA e : e.similarity >= x.similarity)
           after == SelectSeq(rest, LAMBDA e : e.similarity < x.similarity)
       IN before \o <<x>> \o after

\* similarities.sort((a, b) => b.similarity - a.similarity): descending, and
\* stable (Array.prototype.sort of the Node.js versions the README asks for)
RECURSIVE SortBySimilarity(_)
SortBySimilarity(list) ==
  IF list = <<>> THEN <<>>
  ELSE LET rest == SortBySimilarity(Tail(list))
           x == Head(list)
           before == SelectSeq(rest, LAMBDA e : e.similarity > x.similarity)
           after == SelectSeq(rest, LAMBDA e : e.similarity <= x.similarity)
       IN before \o <<x>> \o after

\* mutant of similaritySearch: the entries are taken in store order
similaritySearch_unsorted(similarities) ==
  LET filtered == SelectSeq(similarities, LAMBDA r : r.similarity >= similarityThreshold)
  IN SubSeq(filtered, 1, Min(maxRetrievedChunks, Len(filtered)))

similaritySearch(similarities) ==
  LET sorted == SortBySimilarity(similarities)
      filtered == SelectSeq(sorted, LAMBDA r : r.similarity >= similarityThreshold)
  IN SubSeq(filtered, 1, Min(maxRetrievedChunks, Len(filtered)))

\* mutant of setSimilarityThreshold: the upper end is not checked
setSimilarityThreshold_open(threshold) ==
  IF threshold < 0
  THEN [ok |-> FALSE, value |-> similarityThreshold]
  ELSE [ok |-> TRUE, value |-> threshold]

\* ok = FALSE stands for the Error thrown; 10 is the threshold 1 in tenths
setSimilarityThreshold(threshold) ==
  IF threshold < 0 \/ threshold > 10
  THEN [ok |-> FALSE, value |-> similarityThreshold]
  ELSE [ok |-> TRUE, value |-> threshold]

setMaxRetrievedChunks(maxChunks) ==
  IF maxChunks < 1 \/ maxChunks > 10
  THEN [ok |-> FALSE, value |-> maxRetrievedChunks]
  ELSE [ok |-> TRUE, value |-> maxChunks]

(* Actions of the retrieval pipeline *)

SetSimilarityThreshold(threshold) ==
  /\ similarityThreshold' = setSimilarityThreshold(threshold).value
  /\ rag' = [NoRag EXCEPT !.op = "setSimilarityThreshold",
                          !.ok = setSimilarityThreshold(threshold).ok]
  /\ UNCHANGED <<maxRetrievedChunks, vectorStore>>
  /\ UNCHANGED <<storeVars, llmVars, chatVars, fnVars>>

SetMaxRetrievedChunks(maxChunks) ==
  /\ maxRetrievedChunks' = setMaxRetrievedChunks(maxChunks).value
  /\ rag' = [NoRag EXCEPT !.op = "setMaxRetrievedChunks",
                          !.ok = setMaxRetrievedChunks(maxChunks).ok]
  /\ UNCHANGED <<similarityThreshold, vectorStore>>
  /\ UNCHANGED <<storeVars, llmVars, chatVars, fnVars>>

\* mutant of SimilaritySearch: the store itself is sorted, not the copy
SimilaritySearch_inPlace(scores) ==
  /\ LET sorted == SortBySimilarity(Similarities(vectorStore, scores)) IN
       /\ vectorStore' = [i \in 1..Len(sorted) |->
                            [id |-> sorted[i].id, documentTitle |-> sorted[i].documentTitle,
                             content |-> sorted[i].content]]
       /\ rag' = [NoRag EXCEPT !.op = "similaritySearch",
                               !.similarities = Similarities(vectorStore, scores),
                               !.results = similaritySearch(Similarities(vectorStore, scores))]
  /\ UNCHANGED <<similarityThreshold, maxRetrievedChunks>>
  /\ UNCHANGED <<storeVars, llmVars, chatVars, fnVars>>

SimilaritySearch(scores) ==
  /\ rag' = [NoRag EXCEPT !.op = "similaritySearch",
                          !.similarities = Similarities(vectorStore, scores),
                          !.results = similaritySearch(Similarities(vectorStore, scores))]
  /\ UNCHANGED <<similarityThreshold, maxRetrievedChunks, vectorStore>>
  /\ UNCHANGED <<storeVars, llmVars, chatVars, fnVars>>

RetrieveContext(query, scores) ==
  /\ LET relevantChunks == similaritySearch(Similarities(vectorStore, scores)) IN
     rag' = [NoRag EXCEPT !.op = "retrieveContext",
                          !.similarities = Similarities(vectorStore, scores),
                          !.results = relevantChunks,
                          !.retrieval = <<retrieveContext(query, relevantChunks)>>]
  /\ UNCHANGED <<similarityThreshold, maxRetrievedChunks, vectorStore>>
  /\ UNCHANGED <<storeVars, llmVars, chatVars, fnVars>>

InitSearch ==
  /\ InitStoreVars
  /\ provider \in {"gemini", "mock"}
  /\ credential = TRUE
  /\ InitLLMVars
  /\ initialized = TRUE
  /\ reqs = [r \in Callers |-> IdleReq]
  /\ similarityThreshold = DefaultThreshold
  /\ maxRetrievedChunks = DefaultMaxChunks
  /\ vectorStore \in Stores
  /\ rag = NoRag
  /\ fn = NoFn

NextSearch ==
  \/ \E t \in ThresholdInputs : SetSimilarityThreshold(t)
  \/ \E n \in CapInputs : SetMaxRetrievedChunks(n)
  \/ \E scores \in [1..Len(vectorStore) -> Scores] : SimilaritySearch(scores)
  \/ \E scores \in [1..Len(vectorStore) -> Scores] : RetrieveContext(Query, scores)

SpecSearch == InitSearch /\ [][NextSearch]_vars

\* The score of a stored embedding whose length is not the query's:
\* calculateCosineSimilarity throws instead of returning a number.
Mismatch == -1

\* similaritySearch with what it throws: ok = FALSE stands for the Error of
\* calculateCosineSimilarity, which leaves the map callback and the function
trySimilaritySearch(store, scores) ==
  IF \E i \in 1..Len(store) : scores[i] = Mismatch
  THEN [ok |-> FALSE, results |-> <<>>]
  ELSE [ok |-> TRUE, results |-> similaritySearch(Similarities(store, scores))]

\* mutant of tryRetrieveContext: the Error of the search is thrown on; ok =
\* FALSE stands for the exception
tryRetrieveContext_rethrow(query, search) ==
  IF search.ok
  THEN [ok |-> TRUE, val |-> retrieveContext(query, search.results)]
  ELSE [ok |-> FALSE,
        val |-> [hasContext |-> FALSE, context |-> <<>>, similarityScores |-> <<>>,
                 mockResponse |-> <<>>]]

\* retrieveContext with its try and catch: the catch returns a result of its
\* own for whatever the embedding or the search threw
tryRetrieveContext(query, search) ==
  IF search.ok
  THEN [ok |-> TRUE, val |-> retrieveContext(query, search.results)]
  ELSE [ok |-> TRUE,
        val |-> [hasContext |-> FALSE, context |-> <<>>, similarityScores |-> <<>>,
                 mockResponse |-> <<>>]]

\* processQuery with its try and catch: success = FALSE is the result of its
\* catch, reached when its call of retrieveContext throws
tryProcessQuery(userQuery, conversationHistory, search) ==
  LET r == tryRetrieveContext(userQuery, search) IN
  IF r.ok
  THEN [success |-> TRUE] @@ processQueryFrom(userQuery, conversationHistory, r.val)
  ELSE [success |-> FALSE, hasContext |-> FALSE, prompt |-> <<>>, retrievedChunks |-> 0,
        mockResponse |-> <<>>]

getConfiguration ==
  [similarityThreshold |-> similarityThreshold,
   maxRetrievedChunks |-> maxRetrievedChunks,
   totalChunksInStore |-> Len(vectorStore),
   embeddingDimensions |-> 1536]

\* retrieveContext on a query whose search may throw; rag.ok tells whether
\* the call returned
TryRetrieveContext(query, scores) ==
  /\ LET search == trySimilaritySearch(vectorStore, scores)
         r == tryRetrieveContext(query, search)
     IN rag' = [NoRag EXCEPT !.op = "tryRetrieveContext",
                             !.ok = r.ok,
                             !.similarities = scores,
                             !.results = search.results,
                             !.retrieval = <<r.val>>]
  /\ UNCHANGED <<similarityThreshold, maxRetrievedChunks, vectorStore>>
  /\ UNCHANGED <<storeVars, llmVars, chatVars, fnVars>>

ProcessQuery(query, scores) ==
  /\ LET search == trySimilaritySearch(vectorStore, scores)
         r == tryProcessQuery(query, <<>>, search)
     IN rag' = [NoRag EXCEPT !.op = "processQuery",
                             !.ok = r.success,
                             !.similarities = scores,
                             !.results = search.results,
                             !.retrieval = <<r>>]
  /\ UNCHANGED <<similarityThreshold, maxRetrievedChunks, vectorStore>>
  /\ UNCHANGED <<storeVars, llmVars, chatVars, fnVars>>

GetConfiguration ==
  /\ rag' = [NoRag EXCEPT !.op = "getConfiguration", !.retrieval = <<getConfiguration>>]
  /\ UNCHANGED <<similarityThreshold, maxRetrievedChunks, vectorStore>>
  /\ UNCHANGED <<storeVars, llmVars, chatVars, fnVars>>

\* every exported operation of the pipeline after initialize, on a store
\* that may hold an embedding of another length
NextRetrieve ==
  \/ \E t \in {9, 11} : SetSimilarityThreshold(t)
  \/ \E n \in {1, 11} : SetMaxRetrievedChunks(n)
  \/ \E scores \in [1..Len(vectorStore) -> Scores] : SimilaritySearch(scores)
  \/ \E scores \in [1..Len(vectorStore) -> {6, 9, Mismatch}] :
       TryRetrieveContext(Query, scores)
  \/ \E scores \in [1..Len(vectorStore) -> {6, 9, Mismatch}] :
       ProcessQuery(Query, scores)
  \/ GetConfiguration

SpecRetrieve == InitSearch /\ [][NextRetrieve]_vars

----------------------------------------------------------------------------
(* Actions of the chat route *)

SetWorld(W) ==
  /\ sessions' = W.sessions
  /\ persisted' = W.persisted

\* handleChatRequest up to its return: the whole request when no LLM call is
\* made, and up to the pending promise of callLLMWithFallback otherwise
HandleChatRequest(r, body, metadata, newId, relevantChunks) ==
  /\ reqs[r].pc = "idle"
  /\ UNCHANGED <<now, msgSeq, added, ret, provider, credential, initialized>>
  /\ UNCHANGED <<ragVars, fnVars>>
  /\ LET validation == validateRequest(body) IN
     IF ~validation.isValid
     THEN /\ reqs' = [reqs EXCEPT ![r].pc = "done",
                                  ![r].res = sendErrorResponse(400, validation.error)]
          /\ UNCHANGED <<sessions, persisted, usedIds, totalTokensUsed, requestCount,
                         calls, callsMade>>
     ELSE IF ~initialized
     THEN /\ reqs' = [reqs EXCEPT ![r].pc = "done",
                                  ![r].res = sendErrorResponse(503,
                                     "System is still initializing. Please try again.")]
          /\ UNCHANGED <<sessions, persisted, usedIds, totalTokensUsed, requestCount,
                         calls, callsMade>>
     ELSE
       LET g == getOrCreateSession(World, body.sessionId, metadata, newId, now)
           activeSessionId == g.val
           a == addMessage(g.w, activeSessionId, "user", body.message, NoMeta, now)
           h == getFormattedHistory(a.w, activeSessionId, now)
           ragResult == processQuery(body.message, h.val, relevantChunks)
           q == [reqs[r] EXCEPT !.activeSessionId = activeSessionId,
                                !.retrieved = TRUE,
                                !.hasContext = ragResult.hasContext,
                                !.retrievedChunks = ragResult.retrievedChunks]
       IN /\ g.created => newId \notin usedIds
          /\ usedIds' = IF g.created THEN usedIds \cup {newId} ELSE usedIds
          /\ IF ~a.ok
             THEN /\ SetWorld(a.w)
                  /\ reqs' = [reqs EXCEPT ![r] =
                                unexpectedError([reqs[r] EXCEPT
                                                   !.activeSessionId = activeSessionId])]
                  /\ UNCHANGED <<totalTokensUsed, requestCount, calls, callsMade>>
             ELSE IF usesLLM(ragResult)
             THEN LET L == callLLMWithFallback(LW(r), ragResult.prompt)
                      q1 == [q EXCEPT !.invoked = q.invoked + 1]
                  IN /\ SetWorld(h.w)
                     /\ SetLLM(r, L)
                     /\ callsMade' = callsMade + 1
                     /\ reqs' = [reqs EXCEPT ![r] =
                                   IF L.k.pc = "threw"
                                   THEN unexpectedError(q1)
                                   ELSE [q1 EXCEPT !.pc = "awaitLLM"]]
             ELSE LET b == replyWithoutLLM(h.w, q, ragResult, now)
                  IN /\ SetWorld(b.w)
                     /\ reqs' = [reqs EXCEPT ![r] =
                                   IF b.ok THEN b.q ELSE unexpectedError(b.q)]
                     /\ UNCHANGED <<totalTokensUsed, requestCount, calls, callsMade>>

\* the promise of callLLMWithFallback has settled: its then handler runs and,
\* when the promise was rejected or the then handler threw, the catch handler
LLMSettled(r) ==
  /\ reqs[r].pc = "awaitLLM"
  /\ calls[r].pc \in {"resolved", "rejected"}
  /\ LET first == IF calls[r].pc = "resolved"
                  THEN onLLMResponse(World, reqs[r], calls[r].result, now)
                  ELSE [w |-> World, ok |-> FALSE, q |-> reqs[r]]
         last == IF first.ok THEN first ELSE onLLMError(first.w, first.q, now)
     IN /\ SetWorld(last.w)
        /\ reqs' = [reqs EXCEPT ![r] = last.q]
  /\ UNCHANGED <<now, usedIds, msgSeq, added, ret, initialized>>
  /\ UNCHANGED <<ragVars, fnVars>>
  /\ UNCHANGED llmVars

\* the 5-minute timer started by startSessionCleanup
CleanupExpiredSessions ==
  /\ SetWorld(cleanupExpiredSessions(World, now))
  /\ added' = Forget(added, sessions')
  /\ UNCHANGED <<now, usedIds, msgSeq, ret>>
  /\ UNCHANGED <<llmVars, chatVars, ragVars, fnVars>>

\* The chat route treats every failed request of the gateway alike; of the
\* provider's behaviours SpecChat keeps the complete response and the timeout.
ChatDatas == {d \in Datas : d.shape /\ d.total # Absent}

InitChat ==
  /\ InitStoreVars
  /\ provider \in {"gemini", "mock"}
  /\ credential \in BOOLEAN
  /\ InitLLMVars
  /\ initialized \in BOOLEAN
  /\ reqs = [r \in Callers |-> IdleReq]
  /\ InitRagVars
  /\ fn = NoFn

NextChat ==
  \/ Tick
  \/ CleanupExpiredSessions
  \/ \E r \in Callers, b \in Bodies, m \in Metadata, n \in SessionIds, s \in Searches :
       HandleChatRequest(r, b, m, n, s)
  \/ \E r \in Callers : LLMSettled(r)
  \/ \E c \in Callers : MockTimerFires(c)
  \/ \E c \in Callers : ResponseHeaders(c, TRUE)
  \/ \E c \in Callers, d \in ChatDatas : BodyArrives(c, d)
  \/ \E c \in Callers : RequestTimeout(c)
  \/ \E c \in Callers : RetryTimerFires(c)

SpecChat == InitChat /\ [][NextChat]_vars

----------------------------------------------------------------------------
(* Functions that keep no state: chunkText (documentManager.js),           *)
(* calculateCosineSimilarity and constructPrompt (ragPipeline.js) and      *)
(* generateMockResponse (llmService.js).  Each action applies one of them  *)
(* to an input and records the input and the result in fn.                 *)

MaxWords == 6
MaxChunkSize == 3
MaxIterations == 8

\* String.prototype.split(' '): the pieces between the spaces, the empty
\* ones included; the text without a space is its own single piece
RECURSIVE split(_)
split(text) ==
  IF \A k \in 1..Len(text) : text[k] # " "
  THEN <<text>>
  ELSE LET k == CHOOSE j \in 1..Len(text) :
                   text[j] = " " /\ \A h \in 1..(j - 1) : text[h] # " "
       IN <<SubSeq(text, 1, k - 1)>> \o split(SubSeq(text, k + 1, Len(text)))

\* Array.prototype.join(' ')
RECURSIVE join(_)
join(words) ==
  IF words = <<>> THEN <<>>
  ELSE IF Len(words) = 1 THEN words[1]
  ELSE words[1] \o <<" ">> \o join(Tail(words))

\* Array.prototype.slice(start, end) with integer arguments, 0-based: a
\* negative argument counts from the end of the array
slice(array, start, end) ==
  LET len == Len(array)
      from == IF start < 0 THEN (IF len + start < 0 THEN 0 ELSE len + start)
              ELSE (IF start > len THEN len ELSE start)
      to == IF end < 0 THEN (IF len + end < 0 THEN 0 ELSE len + end)
            ELSE (IF end > len THEN len ELSE end)
  IN IF from < to THEN SubSeq(array, from + 1, to) ELSE <<>>

\* the for loop of chunkText from the value i of its counter on; the status
\* is "returned", or "looping" for a loop still running after MaxIterations
\* more iterations; the function has no throw statement
RECURSIVE chunkLoop(_, _, _, _, _, _)
chunkLoop(words, chunkSize, overlap, i, chunks, iterations) ==
  IF ~(i < Len(words))
  THEN [status |-> "returned", chunks |-> chunks]
  ELSE IF iterations = 0
  THEN [status |-> "looping", chunks |-> chunks]
  ELSE LET chunk == join(slice(words, i, i + chunkSize))
       IN IF i + chunkSize >= Len(words)
          THEN [status |-> "returned", chunks |-> Append(chunks, chunk)]
          ELSE chunkLoop(words, chunkSize, overlap, i + chunkSize - overlap,
                         Append(chunks, chunk), iterations - 1)

\* mutant of chunkText: the windows do not overlap
chunkText_noOverlap(text, chunkSize, overlap) ==
  chunkLoop(split(text), chunkSize, 0, 0, <<>>, MaxIterations)

chunkText(text, chunkSize, overlap) ==
  chunkLoop(split(text), chunkSize, overlap, 0, <<>>, MaxIterations)

\* the words a text is made of: whole words, each written once
Word == <<"w1", "w2", "w3", "w4", "w5", "w6", "w7">>

\* the text of w different words with single spaces between them
TextOf(w) == join([k \in 1..w |-> <<Word[k]>>])

\* the texts chunked: the empty text, w different words, and a text with two
\* spaces in a row
Texts == {TextOf(w) : w \in 0..MaxWords} \cup {<<"w1", " ", " ", "w2", " ", "w3">>}

ChunkText(text, chunkSize, overlap) ==
  /\ fn' = [op |-> "chunkText", text |-> text, chunkSize |-> chunkSize,
            overlap |-> overlap, out |-> chunkText(text, chunkSize, overlap)]
  /\ UNCHANGED <<storeVars, llmVars, chatVars, ragVars>>

MaxDim == 2
Components == {-1, 0, 1}

\* vectors of numbers, of 0 to MaxDim dimensions
Vectors == UNION {[1..d -> Components] : d \in 0..MaxDim}

RECURSIVE Sum(_)
Sum(numbers) == IF numbers = <<>> THEN 0 ELSE Head(numbers) + Sum(Tail(numbers))

\* the number 0
Zero == [dotProduct |-> 0, squares |-> 1]

\* mutant of calculateCosineSimilarity: a zero norm is divided by
calculateCosineSimilarity_divides(vecA, vecB) ==
  IF Len(vecA) # Len(vecB)
  THEN [ok |-> FALSE, value |-> Zero]
  ELSE [ok |-> TRUE,
        value |-> [dotProduct |-> Sum([i \in 1..Len(vecA) |-> vecA[i] * vecB[i]]),
                   squares |-> Sum([i \in 1..Len(vecA) |-> vecA[i] * vecA[i]])
                               * Sum([i \in 1..Len(vecA) |-> vecB[i] * vecB[i]])]]

\* ok = FALSE stands for the Error thrown.  The quotient
\* dotProduct / (sqrt(a) * sqrt(b)) is kept as dotProduct and squares = a * b;
\* a square root is 0 exactly when its argument is.
calculateCosineSimilarity(vecA, vecB) ==
  IF Len(vecA) # Len(vecB)
  THEN [ok |-> FALSE, value |-> Zero]
  ELSE LET dotProduct == Sum([i \in 1..Len(vecA) |-> vecA[i] * vecB[i]])
           normA == Sum([i \in 1..Len(vecA) |-> vecA[i] * vecA[i]])
           normB == Sum([i \in 1..Len(vecA) |-> vecB[i] * vecB[i]])
       IN IF normA = 0 \/ normB = 0
          THEN [ok |-> TRUE, value |-> Zero]
          ELSE [ok |-> TRUE, value |-> [dotProduct |-> dotProduct, squares |-> normA * normB]]

CalculateCosineSimilarity(vecA, vecB) ==
  /\ fn' = [op |-> "calculateCosineSimilarity", vecA |-> vecA, vecB |-> vecB,
            out |-> calculateCosineSimilarity(vecA, vecB)]
  /\ UNCHANGED <<storeVars, llmVars, chatVars, ragVars>>

MaxHistory == 8

\* a history of n messages, oldest first, each with a content of its own
HistoryMessage == <<"m1", "m2", "m3", "m4", "m5", "m6", "m7", "m8", "m9">>
HistoryOf(n) == [k \in 1..n |-> [content |-> <<HistoryMessage[k]>>, role |-> RoleOf(k)]]

\* a context of c entries, as retrieveContext builds them
ContextTitle == <<"T1", "T2", "T3">>
ContextOf(c) ==
  [k \in 1..c |-> [content |-> StoreChunks[k].content, id |-> StoreChunks[k].id,
                    order |-> k, similarity |-> 9, title |-> <<ContextTitle[k]>>]]

ConstructPrompt(userQuery, context, conversationHistory) ==
  /\ fn' = [op |-> "constructPrompt", userQuery |-> userQuery, context |-> context,
            conversationHistory |-> conversationHistory,
            out |-> constructPrompt(userQuery, context, conversationHistory)]
  /\ UNCHANGED <<storeVars, llmVars, chatVars, ragVars>>

\* prompts given to generateMockResponse
MockPrompts ==
  { <<"h", "e", "l", "l", "o">>,
    <<" ", "H", "e", "l", "l", "o", "\n">>,
    <<"g", "o", "o", "d", "b", "y", "e">>,
    <<"G", "o", "o", "d", "b", "y", "e", "!">>,
    <<"t", "h", "i", "s">>,
    <<"a", "p", "i", " ", "b", "i", "l", "l", "i", "n", "g">>,
    <<"z", "z", "z">>,
    <<>>,
    <<"d", "e", "f", "a", "u", "l", "t", "s">>,
    <<"C", "o", "n", "s", "t", "r", "u", "c", "t", "o", "r">>,
    Query }

GenerateMockResponse(prompt) ==
  /\ fn' = [op |-> "generateMockResponse", prompt |-> prompt,
            out |-> generateMockResponse(prompt)]
  /\ UNCHANGED <<storeVars, llmVars, chatVars, ragVars>>

\* the messages of the Errors callLLM rejects with: its own prefix before the
\* message of the last failed attempt (an HTTP error with the status and the
\* provider's text, or the timeout)
ErrorMessages ==
  { <<"LLM API failed after 3 attempts: ", "API Error: ", "4", "2", "9", " - ",
      "Y", "o", "u", " ", "e", "x", "c", "e", "e", "d", "e", "d", " ", "y", "o", "u", "r", " ",
      "c", "u", "r", "r", "e", "n", "t", " ", "q", "u", "o", "t", "a">>,
    <<"LLM API failed after 3 attempts: ", "API Error: ", "4", "2", "9", " - ",
      "T", "o", "o", " ", "M", "a", "n", "y", " ", "R", "e", "q", "u", "e", "s", "t", "s">>,
    <<"LLM API failed after 3 attempts: ", "API Error: ", "5", "0", "0", " - ",
      "I", "n", "t", "e", "r", "n", "a", "l">>,
    <<"LLM API failed after 3 attempts: ", "Request timeout">> }

\* how the promise of callLLM ends, or "threw" for its synchronous throw
Settlements ==
  {[content |-> <<ProviderAnswer>>, message |-> <<>>, pc |-> "resolved"],
   [content |-> <<>>, message |-> <<>>, pc |-> "threw"]}
  \cup {[content |-> <<>>, message |-> m, pc |-> "rejected"] : m \in ErrorMessages}

\* testConnection as exported: the file declares the function twice
\* (part_000:305 and :503) and the later declaration replaces the earlier, so
\* the earlier one, which looks for 'quota' and '429' in the message, is
\* never called.  quotaExceeded is a property the result never has: FALSE
\* stands for undefined.  threw stands for the exception of callLLM, which
\* leaves testConnection before a promise exists.
testConnection(settled) ==
  CASE settled.pc = "threw" ->
         [error |-> <<>>, message |-> "", quotaExceeded |-> FALSE,
          success |-> FALSE, threw |-> TRUE]
    [] settled.pc = "resolved" ->
         [error |-> <<>>, message |-> "Connection successful", quotaExceeded |-> FALSE,
          success |-> TRUE, threw |-> FALSE]
    [] OTHER ->
         [error |-> settled.message, message |-> "Connection failed",
          quotaExceeded |-> FALSE, success |-> FALSE, threw |-> FALSE]

TestConnection(settled) ==
  /\ fn' = [op |-> "testConnection", out |-> testConnection(settled), settled |-> settled]
  /\ UNCHANGED <<storeVars, llmVars, chatVars, ragVars>>

InitFn ==
  /\ InitStoreVars
  /\ provider = "mock"
  /\ credential = TRUE
  /\ InitLLMVars
  /\ initialized = TRUE
  /\ reqs = [r \in Callers |-> IdleReq]
  /\ InitRagVars
  /\ fn = NoFn

NextFn ==
  \/ \E text \in Texts, chunkSize \in 0..MaxChunkSize, overlap \in 0..MaxChunkSize :
       ChunkText(text, chunkSize, overlap)
  \/ \E vecA \in Vectors, vecB \in Vectors : CalculateCosineSimilarity(vecA, vecB)
  \/ \E c \in 0..DefaultMaxChunks, n \in 0..MaxHistory :
       ConstructPrompt(Query, ContextOf(c), HistoryOf(n))
  \/ \E prompt \in MockPrompts : GenerateMockResponse(prompt)
  \/ \E settled \in Settlements : TestConnection(settled)

SpecFn == InitFn /\ [][NextFn]_vars

----------------------------------------------------------------------------
(* Claims about the Conversation Store, checked under SpecStore *)

Live(m, k, t) == MapHas(m, k) /\ t - MapGet(m, k).lastActivity <= SessionTimeout

\* C1: a session never holds more than maxHistoryLength (6) messages, and its
\* message list is always the most recent (at most 6) of the messages added to
\* it, in the order they were added: trimming removes from the front only.
C1_HistoryCap ==
  \A i \in 1..Len(sessions) :
     /\ Len(sessions[i].messages) <= 6
     /\ sessions[i].messages = LastN(added[sessions[i].id], 6)

\* C1 witness: an addMessage has just returned on a session that has received
\* more than 6 messages.
C1_Witness ==
  /\ ret.op = "addMessage" /\ ret.ok
  /\ Len(added[ret.id]) > 6
  /\ Len(MapGet(sessions, ret.id).messages) = 6

\* C2: addMessage on an id that is absent from the store (never created, or
\* deleted) or whose session is expired fails with SessionNotFound, and no
\* session's message list changes.
C2_AddMessageNotFound ==
  [][\A s \in ClientIds \ {NoId}, r \in Roles, c \in 1..MaxMsgs :
       (ret'.op = "addMessage" /\ AddMessage(s, r, c) /\ ~Live(sessions, s, now)) =>
          /\ ~ret'.ok
          /\ ~MapHas(sessions', s)
          /\ \A k \in MapKeys(sessions') :
                MapHas(sessions, k) /\ MapGet(sessions', k) = MapGet(sessions, k)
          /\ \A k \in MapKeys(persisted') :
                MapHas(sessions, k) /\ MapGet(persisted', k) = MapGet(sessions, k)]_vars

\* C2 witness: addMessage has failed on an id whose session once existed
\* (it was deleted, or it expired).
C2_Witness ==
  /\ ret.op = "addMessage" /\ ~ret.ok
  /\ ret.id \in usedIds
  /\ sessions # <<>>

\* C3: getSession returns the session exactly when it is in the store and
\* now - lastActivity <= sessionTimeout (expired means strictly greater), and
\* getAllSessions lists no session with now - lastActivity > sessionTimeout.
C3_Expiry ==
  [][/\ \A s \in ClientIds \ {NoId} :
          (ret'.op = "getSession" /\ GetSession(s)) =>
             (ret'.ok <=> (MapHas(sessions, s)
                           /\ now - MapGet(sessions, s).lastActivity <= SessionTimeout))
     /\ (ret'.op = "getAllSessions" /\ GetAllSessions) =>
          \A i \in 1..Len(ret'.list) :
             /\ MapHas(sessions, ret'.list[i])
             /\ ~(now - MapGet(sessions, ret'.list[i]).lastActivity > SessionTimeout)]_vars

\* C3 witness: getAllSessions has just run while the store held an expired
\* session and a session idle for exactly sessionTimeout; it listed the second only.
C3_Witness ==
  /\ ret.op = "getAllSessions"
  /\ Len(sessions) = 2 /\ Len(ret.list) = 1
  /\ \E i \in 1..2 : now - sessions[i].lastActivity > SessionTimeout
  /\ \E i \in 1..2 : now - sessions[i].lastActivity = SessionTimeout
                     /\ sessions[i].id = ret.list[1]

\* C4: getOrCreateSession(id) on a live session returns id and sets that
\* session's lastActivity to now, changing nothing else of it; on an omitted,
\* unknown or expired id it creates an empty session and returns the new
\* session's id.  In both cases the returned id is then a live session.
C4_GetOrCreate ==
  [][\A s \in ClientIds, m \in Metadata, n \in SessionIds :
       (ret'.op = "getOrCreateSession" /\ GetOrCreateSession(s, m, n)) =>
          /\ Live(sessions, s, now) =>
                /\ ret'.id = s
                /\ MapGet(sessions', s) = [MapGet(sessions, s) EXCEPT !.lastActivity = now]
                /\ Len(sessions') = Len(sessions)
          /\ ~Live(sessions, s, now) =>
                /\ ret'.id = n
                /\ ~MapHas(sessions, n)
                /\ MapGet(sessions', n).messages = <<>>
                /\ MapGet(sessions', n).createdAt = now
          /\ Live(sessions', ret'.id, now)]_vars

\* C4 witness: getOrCreateSession has returned the id of a session created
\* earlier that already holds messages, with its lastActivity refreshed.
C4_Witness ==
  /\ ret.op = "getOrCreateSession"
  /\ MapHas(sessions, ret.id)
  /\ MapGet(sessions, ret.id).messages # <<>>
  /\ MapGet(sessions, ret.id).createdAt < now
  /\ MapGet(sessions, ret.id).lastActivity = now

----------------------------------------------------------------------------
(* Claims about the LLM Gateway, checked under SpecLLM *)

\* requests sent by an invocation that have neither failed nor succeeded yet
InFlight(k) ==
  k.sent - k.failed - (IF k.pc = "resolved" /\ k.result.provider \in Supported THEN 1 ELSE 0)

\* C5: with a non-mock provider and a credential, an invocation sends at most
\* maxRetries (3) requests; it resolves with the provider's response after j
\* requests exactly when the first j-1 failed and request j succeeded; when 3
\* requests have failed it fails with ExhaustedRetries carrying the last
\* request's error; the k-th delay scheduled is 1000 * 2^(k-1) ms, one per
\* failed request except the last possible one.
C5_RetryPolicy ==
  /\ [](\A c \in Callers :
          LET k == calls[c] IN
          (provider # "mock" /\ credential) =>
             /\ k.sent <= 3
             /\ k.delays \in {<<>>, <<1000>>, <<1000, 2000>>}
             /\ Len(k.delays) = (IF k.pc = "backoff" THEN k.sent
                                 ELSE IF k.sent = 0 THEN 0 ELSE k.sent - 1)
             /\ (k.pc = "backoff") => (k.failed = k.sent)
             /\ (k.pc = "resolved" /\ ~k.result.fallback) =>
                   (k.sent >= 1 /\ k.failed = k.sent - 1 /\ k.result.provider = provider)
             /\ (k.pc = "rejected" \/ (k.pc = "resolved" /\ k.result.fallback)) =>
                   (k.sent = 3 /\ k.failed = 3 /\ Len(k.delays) = 2)
             /\ (k.pc = "rejected") =>
                   (k.result.error = "ExhaustedRetries" /\ k.result.cause = k.lastError))
  /\ [][\A c \in Callers, d \in Datas :
          (provider # "mock" /\ calls[c].statusOk /\ d.shape /\ BodyArrives(c, d)) =>
             (calls'[c].pc = "resolved" /\ ~calls'[c].result.fallback
              /\ calls'[c].sent = calls[c].sent)]_vars

\* C5 witness: an invocation has failed after three failed requests with the
\* delays 1000 and 2000 between them.
C5_Witness ==
  \E c \in Callers :
     /\ calls[c].pc = "rejected" /\ calls[c].result.error = "ExhaustedRetries"
     /\ calls[c].sent = 3 /\ calls[c].delays = <<1000, 2000>>
     /\ calls[c].result.cause = "timeout"

\* C6: an invocation has at most one request in flight; a request is sent only
\* by the invocation itself or by the retry timer after the previous request
\* failed, one request at a time, and never once the invocation has settled.
C6_Sequential ==
  /\ [](\A c \in Callers :
          /\ InFlight(calls[c]) \in {0, 1}
          /\ (calls[c].pc \in Settled) => (InFlight(calls[c]) = 0))
  /\ [][\A c \in Callers :
          (calls'[c].sent > calls[c].sent) =>
             /\ calls'[c].sent = calls[c].sent + 1
             /\ calls[c].pc \in {"idle", "backoff"}
             /\ calls[c].failed = calls[c].sent
             /\ Len(calls[c].delays) = calls[c].sent]_vars

\* C6 witness: the second request of an invocation is in flight, after the
\* first failed and its 1000 ms backoff timer fired.
C6_Witness ==
  \E c \in Callers :
     /\ calls[c].pc = "inflight" /\ calls[c].sent = 2 /\ calls[c].failed = 1
     /\ calls[c].delays = <<1000>>

\* C7: an invocation made while the active provider has no credential throws
\* MissingCredential at once: no request is sent, no delay is scheduled and
\* the usage counters keep their values.
C7_MissingCredential ==
  /\ [][\A c \in Callers, p \in Prompts, f \in BOOLEAN :
          (StartCall(c, p, f) /\ provider # "mock" /\ ~credential) =>
             /\ calls'[c].pc = "threw"
             /\ calls'[c].result.error = "MissingCredential"
             /\ calls'[c].sent = 0 /\ calls'[c].delays = <<>>
             /\ totalTokensUsed' = totalTokensUsed
             /\ requestCount' = requestCount]_vars
  /\ [](\A c \in Callers :
          (calls[c].pc = "threw") => (calls[c].sent = 0 /\ calls[c].delays = <<>>))
  /\ []((provider # "mock" /\ ~credential) => (totalTokensUsed = 0 /\ requestCount = 0))

\* C7 witness: callLLM has thrown MissingCredential.
C7_Witness ==
  \E c \in Callers :
     /\ calls[c].pc = "threw" /\ ~calls[c].withFallback
     /\ calls[c].result.error = "MissingCredential"
     /\ provider = "gemini" /\ ~credential

\* C8: callLLMWithFallback never raises and never rejects: every failure of
\* callLLM, the missing credential included, ends as the fallback response.
C8_FallbackNeverRaises ==
  \A c \in Callers :
     calls[c].withFallback =>
        /\ calls[c].pc \notin {"threw", "rejected"}
        /\ (calls[c].pc = "resolved" /\ calls[c].result.provider \notin Supported \cup {"mock"}) =>
              (calls[c].result.provider = "fallback" /\ calls[c].result.tokensUsed = 0
               /\ calls[c].result.fallback)

----------------------------------------------------------------------------
(* Claims about the chat route, checked under SpecChat *)

Finished == {"done", "lost"}

\* C9: every request whose retrieval found context ends with a successful
\* reply whose text is the content the gateway returned or the fixed fallback
\* text, and exactly that text has been appended to the session as the
\* assistant message; it never ends with an error outcome, whatever the
\* gateway did (success, timeout, exhausted retries, missing credential).
C9_LLMPathAlwaysAnswers ==
  \A r \in Callers :
     (reqs[r].retrieved /\ reqs[r].hasContext /\ reqs[r].pc \in Finished) =>
        /\ reqs[r].pc = "done"
        /\ reqs[r].res.status = 200
        /\ reqs[r].res.reply \in {calls[r].result.content, <<FallbackContent>>}
        /\ reqs[r].appended = <<reqs[r].res.reply>>

\* C10: a request whose retrieval reported hasContext = false never invokes
\* the gateway; a request whose retrieval reported hasContext = true invokes
\* callLLMWithFallback exactly once (the retries of that invocation are not
\* invocations), and the handler is the only place an invocation starts.
C10_LLMOnlyWithContext ==
  /\ [](\A r \in Callers :
          /\ ~reqs[r].retrieved => (reqs[r].invoked = 0 /\ calls[r] = IdleCall)
          /\ (reqs[r].retrieved /\ ~reqs[r].hasContext) =>
                (reqs[r].invoked = 0 /\ calls[r] = IdleCall)
          /\ (reqs[r].retrieved /\ reqs[r].hasContext) =>
                (reqs[r].invoked = 1 /\ calls[r].withFallback /\ calls[r].pc # "idle"))
  /\ [](callsMade = Cardinality({r \in Callers : reqs[r].invoked = 1}))
  /\ [][\A r \in Callers, b \in Bodies, m \in Metadata, n \in SessionIds, s \in Searches :
          (reqs[r].pc = "idle" /\ reqs'[r].pc # "idle" /\ HandleChatRequest(r, b, m, n, s)) =>
             /\ reqs'[r].retrieved => (reqs'[r].hasContext <=> Len(s) > 0)
             /\ (Len(s) = 0 \/ ~reqs'[r].retrieved) =>
                   (callsMade' = callsMade /\ calls' = calls
                    /\ requestCount' = requestCount /\ totalTokensUsed' = totalTokensUsed)
             /\ (Len(s) > 0 /\ reqs'[r].retrieved) =>
                   (callsMade' = callsMade + 1 /\ calls'[r].prompt \in {<<>>} \cup
                      {constructPrompt(b.message, retrieveContext(b.message, s).context, h) :
                         h \in {<<>>} \cup {[i \in 1..Len(sessions'[j].messages) |->
                                               [role |-> sessions'[j].messages[i].role,
                                                content |-> sessions'[j].messages[i].content]] :
                                              j \in 1..Len(sessions')}})]_vars
  /\ [][\A r \in Callers :
          (reqs'[r].invoked # reqs[r].invoked \/ calls'[r].withFallback # calls[r].withFallback) =>
             (reqs[r].pc = "idle" /\ reqs'[r].pc # "idle")]_vars

\* C10 witness: one request has been answered from the gateway's response
\* after a single invocation, and another, whose retrieval found nothing, has
\* been answered without any invocation.
C10_Witness ==
  \E r1, r2 \in Callers :
     /\ reqs[r1].pc = "done" /\ reqs[r1].hasContext /\ reqs[r1].invoked = 1
     /\ reqs[r1].res.status = 200 /\ reqs[r1].res.reply = <<ProviderAnswer>>
     /\ calls[r1].sent = 2
     /\ reqs[r2].pc = "done" /\ reqs[r2].retrieved /\ ~reqs[r2].hasContext
     /\ reqs[r2].invoked = 0 /\ reqs[r2].res.status = 200 /\ calls[r2] = IdleCall
     /\ callsMade = 1

Last(seq) == seq[Len(seq)]

\* C11: a request whose retrieval found nothing is answered at once with
\* status 200: under the mock provider the reply is the canned response the
\* keyword table gives for the query ("API " matches the key "api"), under any
\* other provider it is the "insufficient information" message built around
\* the query; that reply is the assistant message appended to the session,
\* with tokensUsed = 0, and the ChatReply has tokensUsed = 0 and
\* retrievedChunks = 0.
C11_NoContextReply ==
  /\ [][\A r \in Callers, b \in Bodies, m \in Metadata, n \in SessionIds, s \in Searches :
          (reqs[r].pc = "idle" /\ reqs'[r].pc # "idle" /\ HandleChatRequest(r, b, m, n, s)
             /\ reqs'[r].retrieved /\ ~reqs'[r].hasContext) =>
             LET q == reqs'[r]
                 session == MapGet(sessions', q.activeSessionId)
             IN /\ Len(s) = 0
                /\ q.pc = "done" /\ q.res.status = 200
                /\ (provider = "mock") =>
                      (b.message = Query =>
                         \E i \in 1..Len(MockResponses) :
                            /\ MockResponses[i].key = <<"a", "p", "i">>
                            /\ q.res.reply = <<MockResponses[i].response>>)
                /\ (provider # "mock") =>
                      q.res.reply = <<InsufficientOpen>> \o b.message \o <<InsufficientClose>>
                /\ q.res.tokensUsed = 0 /\ q.res.retrievedChunks = 0 /\ ~q.res.hasContext
                /\ q.res.sessionId = q.activeSessionId
                /\ Last(session.messages) =
                      [role |-> "assistant", content |-> q.res.reply,
                       tokensUsed |-> 0, retrievedChunks |-> 0]
                /\ calls' = calls]_vars
  /\ [](\A r \in Callers :
          (reqs[r].retrieved /\ ~reqs[r].hasContext) =>
             /\ reqs[r].pc = "done" /\ reqs[r].res.status = 200
             /\ reqs[r].res.tokensUsed = 0 /\ reqs[r].res.retrievedChunks = 0
             /\ reqs[r].appended = <<reqs[r].res.reply>>)

\* C11 witness: under the mock provider a request without context has been
\* answered with the canned response of the key "api", which is the last
\* message of its session.
C11_Witness ==
  \E r \in Callers :
     /\ provider = "mock"
     /\ reqs[r].pc = "done" /\ reqs[r].retrieved /\ ~reqs[r].hasContext
     /\ reqs[r].res.reply = <<MockResponses[18].response>>
     /\ MapHas(sessions, reqs[r].activeSessionId)
     /\ Last(MapGet(sessions, reqs[r].activeSessionId).messages).content = reqs[r].res.reply

Count(seq, role) == Cardinality({i \in 1..Len(seq) : seq[i].role = role})

Formatted(messages) ==
  [i \in 1..Len(messages) |-> [role |-> messages[i].role, content |-> messages[i].content]]

\* the messages of a session id as the store would hand them out at time t
MessagesOf(m, k, t) == IF Live(m, k, t) THEN MapGet(m, k).messages ELSE <<>>

\* C12: the handler appends the user message to the resolved session before
\* retrieval (the history the prompt is built from ends with it) and before
\* the assistant reply; a request that completes has appended exactly one
\* user message and exactly one assistant message to the session whose id it
\* returns, and nothing else changes a session's messages.
C12_OneUserOneAssistant ==
  /\ [][\A r \in Callers, b \in Bodies, m \in Metadata, n \in SessionIds, s \in Searches :
          (reqs[r].pc = "idle" /\ reqs'[r].pc # "idle" /\ HandleChatRequest(r, b, m, n, s)
             /\ reqs'[r].activeSessionId # NoId) =>
             LET q == reqs'[r]
                 before == MessagesOf(sessions, b.sessionId, now)
                 user == [role |-> "user", content |-> b.message,
                          tokensUsed |-> 0, retrievedChunks |-> 0]
                 after == MapGet(sessions', q.activeSessionId).messages
             IN /\ q.retrieved
                /\ (q.pc = "done" /\ q.res.status = 200) =>
                      (/\ ~q.hasContext
                       /\ Len(after) = Len(before) + 2
                       /\ SubSeq(after, 1, Len(before) + 1) = Append(before, user)
                       /\ Last(after).role = "assistant"
                       /\ q.res.sessionId = q.activeSessionId)
                /\ ~(q.pc = "done" /\ q.res.status = 200) =>
                      (q.hasContext /\ after = Append(before, user))
                /\ (q.pc = "awaitLLM") =>
                      calls'[r].prompt =
                         constructPrompt(b.message, retrieveContext(b.message, s).context,
                                         Formatted(Append(before, user)))]_vars
  /\ [][\A r \in Callers :
          (reqs[r].pc = "awaitLLM" /\ reqs'[r].pc = "done") =>
             LET q == reqs'[r]
                 before == MapGet(sessions, q.activeSessionId).messages
                 after == MapGet(sessions', q.activeSessionId).messages
             IN /\ q.res.status = 200 /\ q.res.sessionId = q.activeSessionId
                /\ after = Append(before, [role |-> "assistant", content |-> q.res.reply,
                                           tokensUsed |-> q.res.tokensUsed,
                                           retrievedChunks |-> q.res.retrievedChunks])]_vars
  /\ [][\A k \in MapKeys(sessions) \cap MapKeys(sessions') :
          (MapGet(sessions', k).messages # MapGet(sessions, k).messages) =>
             \E r \in Callers : reqs'[r].pc # reqs[r].pc /\ reqs'[r].activeSessionId = k]_vars
  /\ [](\A i \in 1..Len(sessions) :
          LET id == sessions[i].id
              msgs == sessions[i].messages
          IN /\ Count(msgs, "user") =
                   Cardinality({r \in Callers : reqs[r].activeSessionId = id})
             /\ Count(msgs, "assistant") =
                   Cardinality({r \in Callers : reqs[r].activeSessionId = id
                                                /\ reqs[r].pc = "done" /\ reqs[r].res.status = 200})
             /\ \A j \in 1..Len(msgs) :
                   Count(SubSeq(msgs, 1, j), "assistant") <= Count(SubSeq(msgs, 1, j), "user"))
  /\ [](\A r \in Callers :
          (reqs[r].pc = "done" /\ reqs[r].res.status = 200) =>
             (reqs[r].res.sessionId = reqs[r].activeSessionId /\ Len(reqs[r].appended) = 1))

\* C12 witness: two requests on the same session have both completed, the
\* second one having appended its user message while the first was waiting
\* for the gateway; the session holds two user and two assistant messages.
C12_Witness ==
  \E i \in 1..Len(sessions) :
     /\ \A r \in Callers : reqs[r].pc = "done" /\ reqs[r].res.status = 200
                            /\ reqs[r].res.sessionId = sessions[i].id
                            /\ reqs[r].hasContext
     /\ [j \in 1..Len(sessions[i].messages) |-> sessions[i].messages[j].role]
           = <<"user", "user", "assistant", "assistant">>

----------------------------------------------------------------------------
(* Claims about the usage counters and the mock provider, checked under SpecLLM *)

\* the invocations a step resolves with a response of a real provider
Won == {c \in Callers : /\ calls[c].pc # "resolved" /\ calls'[c].pc = "resolved"
                         /\ calls'[c].result.provider \in Supported}

\* C13: the counters grow only in a step in which an invocation resolves with
\* the response of a real provider: a mock response, a fallback result and a
\* failed attempt leave totalTokensUsed and requestCount as they are.
C13_CountersOnlyOnSuccess ==
  [][(requestCount' > requestCount \/ totalTokensUsed' > totalTokensUsed) => Won # {}]_vars

\* C14: a step that resolves an invocation with a real provider's response
\* adds exactly 1 to requestCount and exactly the response's tokensUsed to
\* totalTokensUsed (so the counters are the number and the token sum of such
\* responses since the last reset); resetUsageStats sets both to 0 and
\* getUsageStats changes neither.
C14_CountersExact ==
  [][/\ \A c \in Won :
          /\ requestCount' = requestCount + 1
          /\ totalTokensUsed' = totalTokensUsed + calls'[c].result.tokensUsed
     /\ ResetUsageStats => (requestCount' = 0 /\ totalTokensUsed' = 0)
     /\ GetUsageStats => (requestCount' = requestCount /\ totalTokensUsed' = totalTokensUsed)]_vars
\* C15: under the mock provider an invocation resolves on its first and only
\* attempt with provider = "mock" and tokensUsed = 0 (the content is the
\* keyword response for its prompt); it sends no request, schedules no retry
\* delay, and never fails, throws or yields the fallback result.
C15_MockShortCircuit ==
  /\ [](\A c \in Callers :
          (provider = "mock") =>
             LET k == calls[c] IN
             /\ k.pc \in {"idle", "mockdelay", "resolved"}
             /\ k.sent = 0 /\ k.failed = 0 /\ k.delays = <<>>
             /\ (k.pc # "idle") => k.attempt = 1
             /\ (k.pc = "mockdelay") => ENABLED MockTimerFires(c)
             /\ (k.pc = "resolved") =>
                   /\ k.result.provider = "mock" /\ k.result.tokensUsed = 0
                   /\ ~k.result.fallback /\ k.result.error = ""
                   /\ (k.prompt = <<"A", "P", "I", " ">>) =>
                         \E i \in 1..Len(MockResponses) :
                            /\ MockResponses[i].key = <<"a", "p", "i">>
                            /\ k.result.content = <<MockResponses[i].response>>)
  /\ [][\A c \in Callers :
          (provider = "mock" /\ calls'[c] # calls[c]) =>
             \/ calls[c].pc = "idle" /\ calls'[c].pc = "mockdelay"
             \/ calls[c].pc = "mockdelay" /\ calls'[c].pc = "resolved"
             \/ calls[c].pc = "resolved" /\ calls'[c] = IdleCall]_vars

\* C15 witness: under the mock provider an invocation made through
\* callLLM has resolved with the keyword response, no request sent.
C15_Witness ==
  \E c \in Callers :
     /\ provider = "mock" /\ ~calls[c].withFallback
     /\ calls[c].pc = "resolved" /\ calls[c].result.provider = "mock"
     /\ calls[c].result.content = <<MockResponses[18].response>>
     /\ calls[c].sent = 0 /\ calls[c].attempt = 1
----------------------------------------------------------------------------
(* Claims about retrieval, checked under SpecSearch *)

Searched == rag.op \in {"similaritySearch", "retrieveContext"}

\* position of an entry of the store in the scored list (ids are unique)
IndexOf(list, e) == CHOOSE k \in 1..Len(list) : list[k].id = e.id

Returned(e) == \E i \in 1..Len(rag.results) : rag.results[i].id = e.id

\* C16: the result of similaritySearch is in descending order of similarity,
\* holds no entry below similarityThreshold and at most maxRetrievedChunks
\* entries, each a scored entry of the store taken once; an entry meeting the
\* threshold is omitted only when the result is full, and then it scores no
\* higher than any returned entry.
C16_SearchResult ==
  Searched =>
    LET S == rag.similarities
        R == rag.results
    IN /\ \A i, j \in 1..Len(R) : i < j => R[i].similarity >= R[j].similarity
       /\ \A i \in 1..Len(R) : R[i].similarity >= similarityThreshold
       /\ Len(R) <= maxRetrievedChunks
       /\ \A i \in 1..Len(R) : \E k \in 1..Len(S) : S[k] = R[i]
       /\ \A i, j \in 1..Len(R) : i # j => R[i].id # R[j].id
       /\ \A k \in 1..Len(S) :
             (S[k].similarity >= similarityThreshold /\ ~Returned(S[k])) =>
                /\ Len(R) = maxRetrievedChunks
                /\ \A i \in 1..Len(R) : R[i].similarity >= S[k].similarity

\* C16 witness: three entries met the threshold, the cap was 2, and the two
\* returned are the highest-scoring ones, the first scoring strictly higher.
C16_Witness ==
  /\ rag.op = "similaritySearch"
  /\ maxRetrievedChunks = 2 /\ Len(rag.results) = 2
  /\ Cardinality({k \in 1..Len(rag.similarities) :
                    rag.similarities[k].similarity >= similarityThreshold}) = 3
  /\ rag.results[1].similarity > rag.results[2].similarity
  /\ rag.results[1].id # rag.similarities[1].id

\* C17: entries of equal similarity keep their insertion order: among the
\* returned entries, and between a returned entry and an omitted one that
\* meets the threshold; a search repeated on the same scored store with the
\* same configuration returns the same result.
C17_StableOrder ==
  /\ [](Searched =>
          LET S == rag.similarities
              R == rag.results
          IN /\ \A i, j \in 1..Len(R) :
                   (i < j /\ R[i].similarity = R[j].similarity) =>
                      IndexOf(S, R[i]) < IndexOf(S, R[j])
             /\ \A i \in 1..Len(R), k \in 1..Len(S) :
                   (~Returned(S[k]) /\ S[k].similarity = R[i].similarity) =>
                      IndexOf(S, R[i]) < k)
  /\ [][(Searched /\ Searched' /\ rag'.similarities = rag.similarities
          /\ similarityThreshold' = similarityThreshold
          /\ maxRetrievedChunks' = maxRetrievedChunks) =>
            rag'.results = rag.results]_vars

\* C17 witness: two returned entries have the same similarity and follow, in
\* insertion order, a higher-scoring entry that was stored after both.
C17_Witness ==
  /\ rag.op = "similaritySearch"
  /\ Len(rag.results) = 3
  /\ rag.results[2].similarity = rag.results[3].similarity
  /\ rag.results[1].similarity > rag.results[2].similarity
  /\ IndexOf(rag.similarities, rag.results[1]) > IndexOf(rag.similarities, rag.results[3])
  /\ IndexOf(rag.similarities, rag.results[2]) < IndexOf(rag.similarities, rag.results[3])

Retrieved == rag.op = "retrieveContext"

\* C18: retrieveContext reports hasContext = FALSE exactly when the result of
\* similaritySearch is empty, and then context and similarityScores are
\* empty; otherwise context has one entry per returned chunk in rank order,
\* carrying the chunk's id, title, content and similarity, the entry at
\* position i has order = i, and similarityScores lists the same scores in
\* the same order.
C18_ContextMatchesResults ==
  Retrieved =>
    LET R == rag.results
        v == rag.retrieval[1]
    IN /\ v.hasContext <=> Len(R) > 0
       /\ ~v.hasContext => v.context = <<>> /\ v.similarityScores = <<>>
       /\ Len(v.context) = Len(R)
       /\ Len(v.similarityScores) = Len(R)
       /\ \A i \in 1..Len(R) :
             /\ v.context[i].id = R[i].id
             /\ v.context[i].title = R[i].documentTitle
             /\ v.context[i].content = R[i].content
             /\ v.context[i].similarity = R[i].similarity
             /\ v.context[i].order = i
             /\ v.similarityScores[i] = R[i].similarity

\* C18 witness: a retrieval that kept two chunks of a three-chunk store, the
\* first of them not the first stored, with different scores.
C18_Witness ==
  /\ Retrieved
  /\ Len(rag.similarities) = 3 /\ Len(rag.results) = 2
  /\ rag.retrieval[1].hasContext
  /\ rag.retrieval[1].context[2].order = 2
  /\ rag.retrieval[1].similarityScores[1] > rag.retrieval[1].similarityScores[2]
  /\ rag.retrieval[1].context[1].id # rag.similarities[1].id

\* C19: when the result of similaritySearch is empty, retrieveContext only
\* reports hasContext = FALSE: whatever the provider, it calls no mock
\* response function of the gateway and its result carries no text to show.
C19_EmptyResultOnlyReports ==
  (Retrieved /\ Len(rag.results) = 0) =>
    /\ ~rag.retrieval[1].hasContext
    /\ rag.retrieval[1].mockResponse = <<>>

\* C20: setSimilarityThreshold throws for every threshold outside [0, 1]
\* (0..10 in tenths) and setMaxRetrievedChunks for every cap outside 1..10; a
\* setter that throws changes neither configuration value, one that returns
\* stores its argument and leaves the other value alone; so
\* similarityThreshold stays within 0..10 and maxRetrievedChunks within 1..10.
C20_SettersKeepRange ==
  /\ [](similarityThreshold \in 0..10 /\ maxRetrievedChunks \in 1..10)
  /\ [][\A t \in ThresholdInputs :
          SetSimilarityThreshold(t) =>
            /\ rag'.ok <=> t \in 0..10
            /\ similarityThreshold' = IF t \in 0..10 THEN t ELSE similarityThreshold
            /\ maxRetrievedChunks' = maxRetrievedChunks]_vars
  /\ [][\A n \in CapInputs :
          SetMaxRetrievedChunks(n) =>
            /\ rag'.ok <=> n \in 1..10
            /\ maxRetrievedChunks' = IF n \in 1..10 THEN n ELSE maxRetrievedChunks
            /\ similarityThreshold' = similarityThreshold]_vars

\* C20 witness: setSimilarityThreshold has just thrown, after both setters
\* had accepted the upper end of their range.
C20_Witness ==
  /\ rag.op = "setSimilarityThreshold" /\ ~rag.ok
  /\ similarityThreshold = 10
  /\ maxRetrievedChunks = 10

----------------------------------------------------------------------------
(* Claims about the functions that keep no state, checked under SpecFn *)

Chunked == fn.op = "chunkText"

\* the least k with k * d >= n, for d > 0
CeilDiv(n, d) == (n + d - 1) \div d

\* C21: for a text of w words (the pieces split gives) and
\* 0 <= overlap < chunkSize, chunkText returns; with s = chunkSize - overlap
\* its k-th chunk holds the words from index (k - 1) * s (0-based) on, chunkSize
\* of them unless it is the last chunk, which ends with word w; so every word
\* lies in a chunk, a chunk shares exactly overlap words with its successor,
\* and there are ceil((w - overlap) / s) chunks when w > chunkSize.
C21_ChunkWindows ==
  (Chunked /\ 0 <= fn.overlap /\ fn.overlap < fn.chunkSize) =>
    LET words == split(fn.text)
        w == Len(words)
        s == fn.chunkSize - fn.overlap
        chunks == fn.out.chunks
        n == Len(chunks)
        start(k) == (k - 1) * s
        end(k) == IF start(k) + fn.chunkSize < w THEN start(k) + fn.chunkSize ELSE w
    IN /\ fn.out.status = "returned"
       /\ n >= 1
       /\ \A k \in 1..n :
             /\ start(k) < w
             /\ split(chunks[k]) = SubSeq(words, start(k) + 1, end(k))
       /\ \A k \in 1..(n - 1) :
             /\ Len(split(chunks[k])) = fn.chunkSize
             /\ end(k) - start(k + 1) = fn.overlap
             /\ end(k + 1) > end(k)
       /\ end(n) = w
       /\ \A i \in 1..w : \E k \in 1..n : start(k) < i /\ i <= end(k)
       /\ w > fn.chunkSize => n = CeilDiv(w - fn.overlap, s)

\* C21 witness: six words in windows of three with an overlap of one give
\* three chunks, the last of them shorter than a window.
C21_Witness ==
  /\ Chunked /\ fn.out.status = "returned"
  /\ fn.chunkSize = 3 /\ fn.overlap = 1
  /\ Len(split(fn.text)) = 6
  /\ Len(fn.out.chunks) = 3
  /\ fn.out.chunks[2] = <<"w3", " ", "w4", " ", "w5">>
  /\ fn.out.chunks[3] = <<"w5", " ", "w6">>

\* C22: chunkText with overlap >= chunkSize fails fast: whatever the text, the
\* call ends with an error, neither returning chunks nor looping.
C22_OverlapFailsFast ==
  (Chunked /\ fn.overlap >= fn.chunkSize) =>
    /\ fn.out.status \notin {"returned", "looping"}
    /\ fn.out.chunks = <<>>

Compared == fn.op = "calculateCosineSimilarity"

IsZeroVector(vec) == \A i \in 1..Len(vec) : vec[i] = 0

\* C23: calculateCosineSimilarity throws whenever the two vectors differ in
\* length; for vectors of one length it returns, and returns the number 0
\* whenever one of them has norm 0.
C23_CosineEdgeCases ==
  Compared =>
    /\ fn.out.ok <=> Len(fn.vecA) = Len(fn.vecB)
    /\ (Len(fn.vecA) = Len(fn.vecB) /\ (IsZeroVector(fn.vecA) \/ IsZeroVector(fn.vecB))) =>
          fn.out.value = Zero

\* C23 witness: a vector of norm 0 compared with one of the same length that
\* has a norm.
C23_Witness ==
  /\ Compared
  /\ fn.vecA = <<0, 0>> /\ fn.vecB = <<1, -1>>
  /\ fn.out.ok /\ fn.out.value = Zero

Prompted == fn.op = "constructPrompt"

SectionHeaders == {Instruction1, HistoryHeader, ContextHeader, QuestionHeader}

\* the pieces of a text that belong to a set, in the order they occur
Only(text, pieces) == SelectSeq(text, LAMBDA p : p \in pieces)

\* the pieces of a text after the first occurrence of a header and before the
\* next header
Section(text, header) ==
  LET at == CHOOSE k \in 1..Len(text) : text[k] = header
      rest == SubSeq(text, at + 1, Len(text))
      stop == {k \in 1..Len(rest) : rest[k] \in SectionHeaders}
  IN IF stop = {} THEN rest
     ELSE SubSeq(rest, 1, (CHOOSE k \in stop : \A j \in stop : k <= j) - 1)

\* C24: the prompt holds its sections in the order system instruction,
\* conversation history, retrieved context, user question; the history
\* section is there exactly when the history is not empty, and holds the last
\* min(6, n) entries, oldest first; the context section is there exactly when
\* the context is not empty, and holds one block per entry, in context order,
\* numbered from 1.
C24_PromptSections ==
  Prompted =>
    LET out == fn.out
        history == fn.conversationHistory
        n == Len(history)
        kept == IF n < 6 THEN n ELSE 6
        context == fn.context
        messages == {HistoryMessage[k] : k \in 1..Len(HistoryMessage)}
        marks == {DocumentOpen} \cup {Ordinal[k] : k \in 1..Len(Ordinal)}
                 \cup {ContextTitle[k] : k \in 1..Len(ContextTitle)}
    IN /\ Only(out, SectionHeaders) =
            <<Instruction1>>
            \o (IF n > 0 THEN <<HistoryHeader>> ELSE <<>>)
            \o (IF Len(context) > 0 THEN <<ContextHeader>> ELSE <<>>)
            \o <<QuestionHeader>>
       /\ out[1] = Instruction1
       /\ Only(out, messages) = [k \in 1..kept |-> history[n - kept + k].content[1]]
       /\ n > 0 => Only(Section(out, HistoryHeader), messages) = Only(out, messages)
       /\ Only(out, marks) =
            Flatten([k \in 1..Len(context) |->
                       <<DocumentOpen, Ordinal[k], context[k].title[1]>>])
       /\ Len(context) > 0 => Only(Section(out, ContextHeader), marks) = Only(out, marks)
       /\ Only(Section(out, QuestionHeader), {"A", "P", "I"}) = <<"A", "P", "I">>

\* C24 witness: a prompt built from a history of eight messages and a context
\* of two entries: it holds the last six messages and two numbered blocks.
C24_Witness ==
  /\ Prompted
  /\ Len(fn.conversationHistory) = 8 /\ Len(fn.context) = 2
  /\ Only(fn.out, {"m1", "m2", "m3", "m8"}) = <<"m3", "m8">>
  /\ Only(fn.out, {"1", "2", "3"}) = <<"1", "2">>

Looked == fn.op = "generateMockResponse"

\* C25: for the prompt in lower case and trimmed, generateMockResponse
\* returns the response of the table key equal to the whole prompt if there
\* is one, otherwise the response of the first key in table order that
\* occurs in the prompt, otherwise the default message.
C25_MockLookup ==
  Looked =>
    LET lowerPrompt == trim(toLowerCase(Chars(fn.prompt)))
        keys == 1..Len(MockResponses)
        default == MockResponses[Len(MockResponses)].response
    IN IF \E i \in keys : MockResponses[i].key = lowerPrompt
       THEN \E i \in keys : /\ MockResponses[i].key = lowerPrompt
                             /\ fn.out = <<MockResponses[i].response>>
       ELSE IF \E i \in keys : includes(lowerPrompt, MockResponses[i].key)
       THEN \E i \in keys :
               /\ includes(lowerPrompt, MockResponses[i].key)
               /\ \A j \in 1..(i - 1) : ~includes(lowerPrompt, MockResponses[j].key)
               /\ fn.out = <<MockResponses[i].response>>
       ELSE fn.out = <<default>>

----------------------------------------------------------------------------
(* Claims about the Conversation Store and its storage file, checked under *)
(* SpecPersist                                                             *)

\* C26: clearConversation on a live session empties its message list and
\* sets its message count to 0, keeps its id, createdAt and metadata, and
\* leaves every other session as it was; on an id that is missing or whose
\* session is expired it throws.
C26_ClearConversation ==
  [][\A s \in SessionIds :
       (ret'.op = "clearConversation" /\ ClearConversation(s)) =>
          IF Live(sessions, s, now)
          THEN /\ ret'.ok
               /\ MapKeys(sessions') = MapKeys(sessions)
               /\ MapGet(sessions', s).messages = <<>>
               /\ MapGet(sessions', s).messageCount = 0
               /\ MapGet(sessions', s).id = s
               /\ MapGet(sessions', s).createdAt = MapGet(sessions, s).createdAt
               /\ MapGet(sessions', s).metadata = MapGet(sessions, s).metadata
               /\ \A k \in MapKeys(sessions) \ {s} :
                     MapGet(sessions', k) = MapGet(sessions, k)
          ELSE ~ret'.ok]_vars

\* C26 witness: a session created earlier has just been cleared while another
\* session keeps its message.
C26_Witness ==
  /\ ret.op = "clearConversation" /\ ret.ok
  /\ MapGet(sessions, ret.id).messages = <<>>
  /\ MapGet(sessions, ret.id).messageCount = 0
  /\ MapGet(sessions, ret.id).createdAt < now
  /\ msgSeq = 2
  /\ \E k \in MapKeys(sessions) \ {ret.id} : Len(MapGet(sessions, k).messages) = 1

\* C27: when a sweep (cleanupExpiredSessions) has run, no session of the store
\* is expired, every session that was not expired is still there as it was,
\* and the storage file has been written at most once, however many sessions
\* the sweep deleted.
C27_Sweep ==
  [][(ret'.op = "cleanupExpiredSessions" /\ SweepExpiredSessions) =>
       /\ \A i \in 1..Len(sessions') : ~isSessionExpired(sessions'[i], now)
       /\ sessions' = SelectSeq(sessions, LAMBDA s : Live(sessions, s.id, now))
       /\ cleanupExpiredSessions(World, now).writes <= 1
       /\ ret'.list # <<>> => cleanupExpiredSessions(World, now).writes = 1]_vars

\* C27 witness: a sweep has just deleted two expired sessions, and the file
\* holds what is left.
C27_Witness ==
  /\ ret.op = "cleanupExpiredSessions"
  /\ Len(ret.list) = 2
  /\ sessions = <<>> /\ persisted = <<>>

\* what the claim compares of a session Map and of a snapshot: the ids, in
\* order, with each session's messages, message count and lastActivity
Snapshot(m) ==
  [i \in 1..Len(m) |-> [id |-> m[i].id, lastActivity |-> m[i].lastActivity,
                        messageCount |-> m[i].messageCount, messages |-> m[i].messages]]

\* C28: when an operation of the store other than loadSessions has changed the
\* Map (create, refresh, add, clear, delete, lazy expiry on lookup, sweep), or
\* has completed a create, refresh, add or clear, the storage file holds the
\* whole Map: the same session ids, each with the same messages, message
\* count and lastActivity.
C28_FileFollowsMap ==
  [][((\/ sessions' # sessions
       \/ ret'.op \in {"createSession", "getOrCreateSession"}
       \/ (ret'.op \in {"addMessage", "clearConversation"} /\ ret'.ok))
      /\ ret'.op # "loadSessions") =>
        Snapshot(persisted') = Snapshot(sessions')]_vars

\* C28 witness: getOrCreateSession has just refreshed a session that holds a
\* message, a second session is stored, and the file agrees with the Map in
\* all that is compared while it differs from it in the metadata, whose
\* undefined userAgent is not written.
C28_Witness ==
  /\ ret.op = "getOrCreateSession"
  /\ Len(sessions) = 2
  /\ MapGet(sessions, ret.id).createdAt < MapGet(sessions, ret.id).lastActivity
  /\ MapGet(sessions, ret.id).messages # <<>>
  /\ Snapshot(persisted) = Snapshot(sessions)
  /\ persisted # sessions

\* C29: after loadSessions the Map holds exactly the sessions of the storage
\* file that are not expired at the time of the load, each as the file has
\* it and in the file's order; a session that is expired in the file is not
\* in the Map.
C29_LoadDropsExpired ==
  [][(ret'.op = "loadSessions" /\ LoadSessions) =>
       /\ MapKeys(sessions') = {k \in MapKeys(persisted) : Live(persisted, k, now)}
       /\ \A k \in MapKeys(sessions') : MapGet(sessions', k) = MapGet(persisted, k)
       /\ \A i, j \in 1..Len(sessions') :
             i < j => MapIndex(persisted, sessions'[i].id) < MapIndex(persisted, sessions'[j].id)
       /\ persisted' = persisted]_vars

\* C29 witness: loadSessions has just read a file of two sessions, one of them
\* expired, and the Map holds the other one with its message.
C29_Witness ==
  /\ ret.op = "loadSessions"
  /\ Len(persisted) = 2 /\ Len(sessions) = 1
  /\ \E i \in 1..2 : isSessionExpired(persisted[i], now)
  /\ sessions[1].messages # <<>>
  /\ MapGet(persisted, sessions[1].id) = sessions[1]

\* C30: createSession adds exactly one session to the Map, with no message,
\* message count 0 and lastActivity = createdAt = the time of the call; the id
\* it returns was not in the Map before, and every session that was in the
\* Map is still there as it was.
C30_CreateSession ==
  [][\A n \in SessionIds :
       (ret'.op = "createSession" /\ CreateSession(NoUserAgent, n)) =>
          /\ ret'.id = n
          /\ ~MapHas(sessions, n)
          /\ MapKeys(sessions') = MapKeys(sessions) \cup {n}
          /\ Len(sessions') = Len(sessions) + 1
          /\ MapGet(sessions', n).messages = <<>>
          /\ MapGet(sessions', n).messageCount = 0
          /\ MapGet(sessions', n).createdAt = now
          /\ MapGet(sessions', n).lastActivity = now
          /\ \A k \in MapKeys(sessions) : MapGet(sessions', k) = MapGet(sessions, k)]_vars

\* C30 witness: createSession has just added a second session to a Map whose
\* first session, created earlier, holds a message.
C30_Witness ==
  /\ ret.op = "createSession"
  /\ Len(sessions) = 2
  /\ sessions[2].id = ret.id /\ sessions[2].createdAt = now
  /\ sessions[2].messages = <<>>
  /\ sessions[1].createdAt < now /\ sessions[1].messages # <<>>

----------------------------------------------------------------------------
(* Claims about the termination of a call, checked under SpecLLMLive        *)

\* C31: every call that was started eventually settles: each attempt ends, as
\* a success or as one failed attempt, when its timeout fires at the latest,
\* also when the response headers have arrived and the body never ends.
C31_CallSettles ==
  \A c \in Callers :
    (calls[c].pc \notin Settled \cup {"idle"}) ~> (calls[c].pc \in Settled)

----------------------------------------------------------------------------
(* Claims about concurrent requests, checked under SpecChat                 *)

\* the assistant messages of a list whose content is x
Replies(msgs, x) == Cardinality({j \in 1..Len(msgs) : msgs[j].role = "assistant" /\ msgs[j].content = x})

\* C32: with two requests on one session in flight at once, interleaved where
\* they wait for the gateway, no append is lost: a step that appends to a
\* session keeps the messages it held, in order, before the new ones (up to
\* the cap), and the file follows; so the list holds the user message of every
\* request that reached the session and the assistant message of every
\* request that has replied, each exactly once.
C32_NoLostUpdate ==
  /\ [][\A k \in MapKeys(sessions) \cap MapKeys(sessions') :
          LET old == MapGet(sessions, k).messages
              new == MapGet(sessions', k).messages
          IN \E n \in 0..2 :
                /\ Len(new) = Min(Len(old) + n, MaxHistoryLength)
                /\ SubSeq(new, 1, Len(new) - n) = LastN(old, Len(new) - n)]_vars
  /\ [](Snapshot(persisted) = Snapshot(sessions))
  /\ [](\A i \in 1..Len(sessions) :
          LET id == sessions[i].id
              msgs == sessions[i].messages
              here == {r \in Callers : reqs[r].activeSessionId = id}
          IN /\ Len(msgs) = Cardinality(here)
                              + Cardinality({r \in here : reqs[r].appended # <<>>})
             /\ \A j \in 1..Len(msgs) : msgs[j].role = "user" => msgs[j].content = Query
             /\ \A r \in here :
                   reqs[r].appended # <<>> =>
                     Replies(msgs, reqs[r].appended[1]) =
                       Cardinality({q \in here : reqs[q].appended = reqs[r].appended}))

\* C32 witness: two requests on one session have both replied, with different
\* replies; each appended its user message before either reply was appended,
\* and the file holds all four messages.
C32_Witness ==
  /\ Len(sessions) = 1
  /\ \A r \in Callers : reqs[r].pc = "done" /\ reqs[r].activeSessionId = sessions[1].id
                          /\ Len(reqs[r].appended) = 1
  /\ reqs["r1"].appended # reqs["r2"].appended
  /\ Len(sessions[1].messages) = 4
  /\ sessions[1].messages[2].role = "user" /\ sessions[1].messages[3].role = "assistant"
  /\ Snapshot(persisted) = Snapshot(sessions)

\* C33: when the session of a request that waits for the gateway has been
\* removed (by the sweep, or by lazy expiry on the lookup itself) before the
\* assistant reply is appended, the error of the Conversation Store is caught:
\* the request ends with exactly one response, the generic "unexpected error"
\* outcome, and no exception escapes the handler.
C33_RemovedSessionAnswered ==
  [][\A r \in Callers :
       (/\ reqs[r].pc = "awaitLLM" /\ reqs'[r].pc # "awaitLLM"
        /\ ~Live(sessions, reqs[r].activeSessionId, now)) =>
          /\ reqs'[r].pc = "done"
          /\ reqs'[r].res = sendErrorResponse(500,
                "An unexpected error occurred while processing your request.")]_vars

----------------------------------------------------------------------------
(* Claims about the periodic sweep, checked under SpecSweep                 *)

\* C34: once the store is initialised, a session that is expired is
\* eventually gone from the Map and from the file, given that the sweep of
\* the interval timer keeps firing.
C34_ExpiredEventuallyRemoved ==
  \A k \in SessionIds :
    (MapHas(sessions, k) /\ isSessionExpired(MapGet(sessions, k), now))
      ~> (~MapHas(sessions, k) /\ ~MapHas(persisted, k))

\* C34 witness: the sweep has just removed one expired session from the Map
\* and from the file, and a live session that holds a message is left in both.
C34_Witness ==
  /\ ret.op = "cleanupExpiredSessions"
  /\ Len(ret.list) = 1
  /\ ~MapHas(sessions, ret.list[1]) /\ ~MapHas(persisted, ret.list[1])
  /\ Len(sessions) = 1 /\ Len(persisted) = 1
  /\ sessions[1].messages # <<>> /\ persisted[1].messages = sessions[1].messages

----------------------------------------------------------------------------
(* Claims about the lookups of the Conversation Store, checked under SpecLookup *)

\* an operation that looks the session s up by its id
Lookup(s) ==
  \/ GetSession(s)
  \/ \E r \in Roles, c \in 1..MaxPersistMsgs : AddMessage(s, r, c)
  \/ ClearConversation(s)
  \/ GetConversationHistory(s)
  \/ GetSessionStats(s)
  \/ \E n \in SessionIds : GetOrCreateSession(s, NoUserAgent, n)

LookupOps ==
  {"getSession", "addMessage", "clearConversation", "getConversationHistory",
   "getSessionStats", "getOrCreateSession"}

\* C35: every operation that looks a session up by id removes it from the
\* Map and from the file when it is expired, and leaves every other session
\* where it is; getAllSessions and getSystemStats change neither the Map nor
\* the file, expired sessions or not.
C35_LazyExpiry ==
  [][/\ \A s \in SessionIds :
          (ret'.op \in LookupOps /\ Lookup(s) /\ MapHas(sessions, s)
             /\ isSessionExpired(MapGet(sessions, s), now)) =>
             /\ ~MapHas(sessions', s) /\ ~MapHas(persisted', s)
             /\ \A k \in MapKeys(sessions) \ {s} :
                   MapHas(sessions', k) /\ MapGet(sessions', k) = MapGet(sessions, k)
             /\ Snapshot(persisted') = Snapshot(sessions')
     /\ (ret'.op \in {"getAllSessions", "getSystemStats"} /\ (GetAllSessions \/ GetSystemStats)) =>
             (sessions' = sessions /\ persisted' = persisted)]_vars

\* C35 witness: getConversationHistory has just been asked for a session
\* that was created before and returned nothing; that session is in neither
\* the Map nor the file, while another expired session is still in both.
C35_Witness ==
  /\ ret.op = "getConversationHistory" /\ ret.list = <<>>
  /\ ret.id \in usedIds
  /\ ~MapHas(sessions, ret.id) /\ ~MapHas(persisted, ret.id)
  /\ Len(sessions) = 1 /\ isSessionExpired(sessions[1], now)
  /\ MapHas(persisted, sessions[1].id)

----------------------------------------------------------------------------
(* Claims about the parsed token usage, checked under SpecLLM               *)

\* C36: for the provider that reports an input and an output count (claude),
\* the tokensUsed of a parsed response is the input count, or 0 if absent,
\* plus the output count, or 0 if absent: a response with one of the two
\* counts yields that count.
C36_ClaudeTokens ==
  [][\A c \in Callers, d \in Datas :
       (provider = "claude" /\ BodyArrives(c, d) /\ calls'[c].pc = "resolved") =>
          calls'[c].result.tokensUsed = OrZero(d.input) + OrZero(d.output)]_vars

----------------------------------------------------------------------------
(* Claims about the connection test, checked under SpecFn                   *)

\* C37: a failure of the provider whose message contains 'quota' or '429' is
\* reported by the exported connection test with quotaExceeded = true, and
\* so told apart from any other failure.
C37_QuotaFlag ==
  (fn.op = "testConnection" /\ fn.settled.pc = "rejected") =>
     (fn.out.quotaExceeded <=>
        \/ includes(Chars(fn.settled.message), <<"q", "u", "o", "t", "a">>)
        \/ includes(Chars(fn.settled.message), <<"4", "2", "9">>))

----------------------------------------------------------------------------
(* Claims about the Vector Store and the errors of retrieval, checked under *)
(* SpecRetrieve                                                            *)

\* C38: the Vector Store is read-only once it is built: no call of
\* retrieveContext, similaritySearch, processQuery, a setter or
\* getConfiguration changes its entries or their order.
C38_StoreReadOnly == [][vectorStore' = vectorStore]_vars

\* C38 witness: a search over a store of three entries has returned the
\* third before the first and left the second out, and the store is as it
\* was built.
C38_Witness ==
  /\ rag.op = "similaritySearch"
  /\ vectorStore = SubSeq(StoreChunks, 1, 3)
  /\ Len(rag.results) = 2
  /\ rag.results[1].id = vectorStore[3].id
  /\ rag.results[2].id = vectorStore[1].id

\* the search of the last call met a stored embedding of another length
Mismatched == \E i \in 1..Len(rag.similarities) : rag.similarities[i] = Mismatch

\* C40: retrieveContext never raises: when the embedding or the search
\* throws, a DimensionMismatch included, it returns a result with hasContext
\* = FALSE and an empty context, so processQuery reports no context and the
\* handler's branch on it makes no LLM call.
C40_RetrievalNeverRaises ==
  /\ rag.op = "tryRetrieveContext" =>
        /\ rag.ok
        /\ Mismatched => (/\ ~rag.retrieval[1].hasContext
                          /\ rag.retrieval[1].context = <<>>
                          /\ rag.retrieval[1].similarityScores = <<>>)
  /\ rag.op = "processQuery" =>
        /\ rag.ok
        /\ Mismatched => (/\ ~rag.retrieval[1].hasContext
                          /\ rag.retrieval[1].retrievedChunks = 0
                          /\ ~usesLLM(rag.retrieval[1]))

\* C40 witness: processQuery has returned without context for a store of
\* three entries of which one has an embedding of another length and another
\* scores above the threshold.
C40_Witness ==
  /\ rag.op = "processQuery" /\ rag.ok
  /\ Len(vectorStore) = 3
  /\ Mismatched
  /\ \E i \in 1..Len(rag.similarities) : rag.similarities[i] >= similarityThreshold
  /\ ~rag.retrieval[1].hasContext
  /\ rag.retrieval[1].prompt = <<InsufficientOpen>> \o Query \o <<InsufficientClose>>

----------------------------------------------------------------------------
(* Claims about the message count, checked under SpecCount                  *)

\* C39: a session's messageCount is the number of successful addMessage
\* calls on it since it was created or last cleared; so it is at least the
\* length of the message list, and equal to it as long as nothing was
\* trimmed; an addMessage that trims raises it by one like any other.
C39_MessageCount ==
  /\ [](\A i \in 1..Len(sessions) :
          LET session == sessions[i] IN
          /\ session.messageCount = Len(added[session.id])
          /\ session.messageCount >= Len(session.messages)
          /\ Len(session.messages) = Min(session.messageCount, MaxHistoryLength))
  /\ [][\A s \in SessionIds, r \in Roles, c \in 1..MaxMsgs :
          (ret'.op = "addMessage" /\ ret'.ok /\ AddMessage(s, r, c)) =>
             MapGet(sessions', s).messageCount = MapGet(sessions, s).messageCount + 1]_vars
  /\ [](ret.op = "getSessionStats" /\ ret.ok =>
          ret.list[1].messageCount = MapGet(sessions, ret.id).messageCount)

\* C39 witness: getSessionStats reports seven messages for a session whose
\* list was trimmed to six.
C39_Witness ==
  /\ ret.op = "getSessionStats" /\ ret.ok
  /\ ret.list[1].messageCount = MaxHistoryLength + 1
  /\ ret.list[1].userMessageCount + ret.list[1].assistantMessageCount = MaxHistoryLength
  /\ Len(MapGet(sessions, ret.id).messages) = MaxHistoryLength

====
